---- MODULE Spec2Model ----
(***************************************************************************)
(* Model of the spectral-clustering-visualizer front end:                  *)
(*   - services/clusteringService.ts : dataset generators, mock clustering *)
(*     operations, mock metrics, CSV parsing;                              *)
(*   - services/geminiService.ts     : analyzeClusteringResults;           *)
(*   - App.tsx                       : runAnalysis and the on-mount run;   *)
(*   - components/ControlPanel.tsx   : the Analyze button.                 *)
(*                                                                         *)
(* Numbers.  JavaScript numbers are modelled in fixed point: a model       *)
(* integer v stands for the real v / Scale.  The three non-finite values   *)
(* are the reserved integers NaN, PosInf and NegInf.  Math.random() is a   *)
(* "tape": a finite sequence of values in [0, Scale) that is read          *)
(* cyclically, the i-th call returning the i-th entry.                     *)
(*                                                                         *)
(* Strings.  Messages are sequences of tokens (TLA+ strings); joining is   *)
(* \o and "begins with" is a prefix test on the token sequence.  The text  *)
(* of a CSV file is a sequence of one-character strings.                   *)
(***************************************************************************)
EXTENDS Integers, Sequences, FiniteSets, TLC

VARIABLES
    \* ---- App.tsx state (useState hooks of App) ----
    dataset,          \* Point[]
    datasetName,      \* string
    clusterResults,   \* ClusterResult[]
    maxMetrics,       \* Metrics | null
    geminiAnalysis,   \* string
    isLoading,        \* boolean
    error,            \* string | null
    xAxisLabel,       \* string
    yAxisLabel,       \* string
    \* ---- geminiService.ts module state ----
    API_KEY,          \* TRUE when import.meta.env.VITE_GEMINI_API_KEY is truthy
    \* ---- control state of the runAnalysis invocations ----
    mounted,          \* the on-mount effect has run
    runs,             \* run id -> position and locals of that invocation
    \* ---- ControlPanel state (useState hooks and the file input) ----
    panel,            \* datasetType, selectedFile, dropLastColumn, datasetHint, params
    \* ---- harness for the pure functions ----
    fn                \* the last pure-function call and its result

vars == << dataset, datasetName, clusterResults, maxMetrics, geminiAnalysis,
           isLoading, error, xAxisLabel, yAxisLabel, API_KEY, mounted, runs,
           panel, fn >>

\* the state of App and of the services
hookVars == << dataset, datasetName, clusterResults, maxMetrics, geminiAnalysis,
               isLoading, error, xAxisLabel, yAxisLabel, API_KEY, mounted, runs >>

appVars == << hookVars, panel >>

----------------------------------------------------------------------------
(* Bounds of the model *)

\* number of points the app asks the generator for (the source default is 200)
NSamples == 4
\* largest sample count given to generateDataset in the generator harness
MaxN == 5
\* number of runAnalysis invocations followed (the on-mount run included)
MaxRuns == 2
\* largest Clusters (K) value passed to runAnalysis
MaxK == 3

----------------------------------------------------------------------------
(* Fixed-point numbers *)

Scale == 10 ^ 3
PosInf == 2 * (10 ^ 9)
NegInf == 0 - PosInf
NaN == PosInf + 1

IsFinite(v) == v # NaN /\ v # PosInf /\ v # NegInf

\* a + b on JavaScript numbers
Add(a, b) ==
    IF a = NaN \/ b = NaN THEN NaN
    ELSE IF a = PosInf THEN (IF b = NegInf THEN NaN ELSE PosInf)
    ELSE IF a = NegInf THEN (IF b = PosInf THEN NaN ELSE NegInf)
    ELSE IF b = PosInf \/ b = NegInf THEN b
    ELSE a + b

\* -a
Neg(a) ==
    IF a = NaN THEN NaN
    ELSE IF a = PosInf THEN NegInf
    ELSE IF a = NegInf THEN PosInf
    ELSE 0 - a

Sub(a, b) == Add(a, Neg(b))

\* a * b where a and b are fixed-point numbers
Mul(a, b) ==
    IF a = NaN \/ b = NaN THEN NaN
    ELSE IF ~IsFinite(a) \/ ~IsFinite(b)
         THEN (IF a = 0 \/ b = 0 THEN NaN
               ELSE IF (a > 0) = (b > 0) THEN PosInf ELSE NegInf)
    ELSE (a * b) \div Scale

\* Math.max(a, b)
MathMax(a, b) ==
    IF a = NaN \/ b = NaN THEN NaN
    ELSE IF a > b THEN a ELSE b

\* The quotient i / d of two counts, kept as a fraction: 0/0 is NaN and
\* i/0 (i # 0) is infinite, as in JavaScript.
JSDiv(i, d) == [num |-> i, den |-> d]
QuotIsNaN(q) == q.den = 0 /\ q.num = 0
QuotIsInf(q) == q.den = 0 /\ q.num # 0

\* Angles are kept in hundredths of pi.  sin(pi * t / 100) for 0 <= t <= 100
\* (Bhaskara's rational approximation, exact at 0, pi/2 and pi), in fixed point
SinFrac(t) == (16 * Scale * t * (100 - t)) \div (50000 - 4 * t * (100 - t))

\* sin(pi * t / 100) for t >= 0
SinPi(t) ==
    LET r == t % 200
    IN  IF r <= 100 THEN SinFrac(r) ELSE 0 - SinFrac(r - 100)

\* cos(pi * t / 100) for t >= 0
CosPi(t) == SinPi(t + 50)

\* Math.cos(quot * Math.PI) and Math.sin(quot * Math.PI) for a quotient
\* quot >= 0: NaN for a NaN or infinite argument
CosOfPiTimes(quot) ==
    IF quot.den = 0 THEN NaN ELSE CosPi((quot.num * 100) \div quot.den)

SinOfPiTimes(quot) ==
    IF quot.den = 0 THEN NaN ELSE SinPi((quot.num * 100) \div quot.den)

----------------------------------------------------------------------------
(* Math.random() *)

RandomVals == {0, 500, 999}

\* the tapes of the generator harness
Tapes == [1..2 -> RandomVals]

\* the i-th call (i = 0, 1, ...) of Math.random() on a tape
Rnd(tape, i) == tape[(i % Len(tape)) + 1]

\* (Math.random() - 0.5) * noise * 2, r the value Math.random() returned
NoiseTerm(r, noise) == ((r - Scale \div 2) * noise * 2) \div Scale

----------------------------------------------------------------------------
(* Dataset generation: clusteringService.ts *)

DatasetTypes == {"Moons", "Blobs", "Circles", "Custom"}

MoonsNoise == 80
BlobsCenters == 3
BlobsClusterStd == 500
CirclesFactor == 500
CirclesNoise == 50

\* generateMoons with both arcs given Math.floor(n_samples / 2) points
generateMoons_EqualHalves(n_samples, tape) ==
    LET n_samples_out == n_samples \div 2
        top(i) ==
            LET angle == JSDiv(i, n_samples_out - 1)
            IN  [x |-> Add(CosOfPiTimes(angle),
                           NoiseTerm(Rnd(tape, 2 * i), MoonsNoise)),
                 y |-> Add(SinOfPiTimes(angle),
                           NoiseTerm(Rnd(tape, 2 * i + 1), MoonsNoise))]
    IN  [j \in 1..n_samples_out |-> top(j - 1)]
        \o [j \in 1..n_samples_out |-> top(j - 1)]

generateMoons(n_samples, tape) ==
    LET n_samples_out == n_samples \div 2
        n_samples_in == n_samples - n_samples_out
        top(i) ==
            LET angle == JSDiv(i, n_samples_out - 1)
            IN  [x |-> Add(CosOfPiTimes(angle),
                           NoiseTerm(Rnd(tape, 2 * i), MoonsNoise)),
                 y |-> Add(SinOfPiTimes(angle),
                           NoiseTerm(Rnd(tape, 2 * i + 1), MoonsNoise))]
        bottom(i) ==
            LET angle == JSDiv(i, n_samples_in - 1)
                base == 2 * n_samples_out
            IN  [x |-> Add(Sub(Scale, CosOfPiTimes(angle)),
                           NoiseTerm(Rnd(tape, base + 2 * i), MoonsNoise)),
                 y |-> Add(Sub(Scale \div 2, SinOfPiTimes(angle)),
                           NoiseTerm(Rnd(tape, base + 2 * i + 1), MoonsNoise))]
    IN  [j \in 1..n_samples_out |-> top(j - 1)]
        \o [j \in 1..n_samples_in |-> bottom(j - 1)]

generateBlobs(n_samples, tape) ==
    LET centerPoints == [c \in 0..(BlobsCenters - 1) |->
            [x |-> (Rnd(tape, 2 * c) - Scale \div 2) * 8,
             y |-> (Rnd(tape, 2 * c + 1) - Scale \div 2) * 8]]
        base == 2 * BlobsCenters
        pt(i) ==
            LET center == centerPoints[i % BlobsCenters]
            IN  [x |-> Add(center.x, NoiseTerm(Rnd(tape, base + 2 * i), BlobsClusterStd)),
                 y |-> Add(center.y, NoiseTerm(Rnd(tape, base + 2 * i + 1), BlobsClusterStd))]
    IN  [j \in 1..n_samples |-> pt(j - 1)]

\* generateCircles with is_outer = i < n_samples / 2
generateCircles_OuterFirst(n_samples, tape) ==
    LET pt(i) ==
            LET is_outer == 2 * i < n_samples
                r == IF is_outer THEN Scale ELSE CirclesFactor
                angle == JSDiv(Rnd(tape, 3 * i), Scale \div 2)
            IN  [x |-> Add(Mul(r, CosOfPiTimes(angle)),
                           NoiseTerm(Rnd(tape, 3 * i + 1), CirclesNoise)),
                 y |-> Add(Mul(r, SinOfPiTimes(angle)),
                           NoiseTerm(Rnd(tape, 3 * i + 2), CirclesNoise))]
    IN  [j \in 1..n_samples |-> pt(j - 1)]

generateCircles(n_samples, tape) ==
    LET pt(i) ==
            LET is_outer == 2 * i >= n_samples
                r == IF is_outer THEN Scale ELSE CirclesFactor
                \* angle = Math.random() * 2 * Math.PI = pi * rnd / (Scale / 2)
                angle == JSDiv(Rnd(tape, 3 * i), Scale \div 2)
            IN  [x |-> Add(Mul(r, CosOfPiTimes(angle)),
                           NoiseTerm(Rnd(tape, 3 * i + 1), CirclesNoise)),
                 y |-> Add(Mul(r, SinOfPiTimes(angle)),
                           NoiseTerm(Rnd(tape, 3 * i + 2), CirclesNoise))]
    IN  [j \in 1..n_samples |-> pt(j - 1)]

generateDataset(type, n_samples, tape) ==
    CASE type = "Moons" -> generateMoons(n_samples, tape)
      [] type = "Blobs" -> generateBlobs(n_samples, tape)
      [] type = "Circles" -> generateCircles(n_samples, tape)
      [] OTHER -> << >>

\* the number of Math.random() calls generateDataset makes
generateDatasetDraws(type, n_samples) ==
    CASE type = "Moons" -> 2 * n_samples
      [] type = "Blobs" -> 2 * BlobsCenters + 2 * n_samples
      [] type = "Circles" -> 3 * n_samples
      [] OTHER -> 0

----------------------------------------------------------------------------
(* Mock clustering: clusteringService.ts *)

Min(a, b) == IF a < b THEN a ELSE b

\* the comparator (a, b) => b.x - a.x
CmpLeq_Descending(a, b) == a.x = NaN \/ b.x = NaN \/ a.x >= b.x

\* The comparator (a, b) => a.x - b.x is <= 0; a NaN difference counts as 0.
CmpLeq(a, b) == a.x = NaN \/ b.x = NaN \/ a.x <= b.x

\* [...data].sort((a, b) => a.x - b.x): a stable sort, by insertion
\* p placed after the k elements of the sorted sequence it does not precede
InsertByX(sorted, p) ==
    LET k == Cardinality({i \in 1..Len(sorted) : CmpLeq(sorted[i], p)})
    IN  SubSeq(sorted, 1, k) \o << p >> \o SubSeq(sorted, k + 1, Len(sorted))

RECURSIVE SortByX(_)
SortByX(data) ==
    IF data = << >> THEN << >>
    ELSE LET n == Len(data)
         \* the sorted prefix is computed once
         IN  CHOOSE out \in {InsertByX(rest, data[n]) :
                                rest \in {SortByX(SubSeq(data, 1, n - 1))}} : TRUE

\* { ...point, cluster }
WithCluster(point, cluster) == [x |-> point.x, y |-> point.y, cluster |-> cluster]

assignClustersByXSplit(data, k) ==
    IF Len(data) = 0 \/ k <= 0 THEN << >>
    ELSE LET sortedData == SortByX(data)
             totalPoints == Len(sortedData)
         IN  [j \in 1..totalPoints |->
                 \* index = j - 1; Math.floor((index / totalPoints) * k)
                 WithCluster(sortedData[j],
                             Min(k - 1, ((j - 1) * k) \div totalPoints))]

\* Math.sqrt(dx^2 + dy^2) is kept exactly, as the number under the root:
\* sqrt is strictly increasing, so roots compare as their arguments do.
Distance(p, m) ==
    LET dx == Sub(p.x, m.x)
        dy == Sub(p.y, m.y)
    IN  IF dx = NaN \/ dy = NaN THEN [nan |-> TRUE, sq |-> 0]
        ELSE [nan |-> FALSE, sq |-> dx * dx + dy * dy]

\* the test distance <= minDistance
DistanceLess_OrEqual(d, minDistance) ==
    /\ ~d.nan
    /\ (minDistance.inf \/ (~minDistance.nan /\ d.sq <= minDistance.sq))

\* distance < minDistance, minDistance Infinity or an earlier distance
DistanceLess(d, minDistance) ==
    /\ ~d.nan
    /\ (minDistance.inf \/ (~minDistance.nan /\ d.sq < minDistance.sq))

\* means.forEach(...) from centroid index i on: the closest index found
RECURSIVE ClosestMean(_, _, _, _, _)
ClosestMean(point, means, i, closestMeanIndex, minDistance) ==
    IF i > Len(means) THEN closestMeanIndex
    ELSE LET distance == Distance(point, means[i])
         IN  IF DistanceLess(distance, minDistance)
             THEN ClosestMean(point, means, i + 1, i - 1,
                              [nan |-> FALSE, inf |-> FALSE, sq |-> distance.sq])
             ELSE ClosestMean(point, means, i + 1, closestMeanIndex, minDistance)

\* data[Math.floor(Math.random() * data.length)], 1-based
RandomIndex(r, length) == ((r * length) \div Scale) + 1

\* the k mock centroids, drawn with the calls off, off + 1, ... of the tape
Means(data, k, tape, off) ==
    [j \in 1..k |-> data[RandomIndex(Rnd(tape, off + j - 1), Len(data))]]

assignClustersByCentroids(data, k, tape, off) ==
    IF Len(data) = 0 \/ k <= 0 THEN << >>
    ELSE LET means == Means(data, k, tape, off)
         IN  [j \in 1..Len(data) |->
                 WithCluster(data[j],
                     ClosestMean(data[j], means, 1, 0,
                                 [nan |-> FALSE, inf |-> TRUE, sq |-> 0]))]

assignClustersByCentroidsDraws(data, k) ==
    IF Len(data) = 0 \/ k <= 0 THEN 0 ELSE k

\* parseFloat(v.toFixed(3)) of a value given in millionths: rounded to the
\* nearest thousandth, a tie away from zero
ToFixed3(micro) ==
    IF micro >= 0 THEN (micro + Scale \div 2) \div Scale
    ELSE 0 - ((0 - micro + Scale \div 2) \div Scale)

generateMockMetrics(tape, off) ==
    LET silhouette == Rnd(tape, off) * 1600 - 600 * Scale
        calinskiHarabasz == Rnd(tape, off + 1) * 500 * Scale + 50 * Scale * Scale
        daviesBouldin == Rnd(tape, off + 2) * 1500 + 300 * Scale
    IN  [silhouette |-> ToFixed3(silhouette),
         calinskiHarabasz |-> ToFixed3(calinskiHarabasz),
         daviesBouldin |-> ToFixed3(daviesBouldin)]

MetricsDraws == 1 + 1 + 1

\* a split by index into three parts instead of two
HalfIndexSplit_Thirds(data) ==
    [j \in 1..Len(data) |-> WithCluster(data[j], (j - 1) % 3)]

\* the half-index split with n_samples_out = Math.ceil(data.length / 2)
HalfIndexSplit_Ceil(data) ==
    [j \in 1..Len(data) |->
        WithCluster(data[j], IF j - 1 < Len(data) - Len(data) \div 2 THEN 0 ELSE 1)]

\* data.map((p, index) => ({...p, cluster: index < n_samples_out ? 0 : 1}))
HalfIndexSplit(data) ==
    LET n_samples_out == Len(data) \div 2
    IN  [j \in 1..Len(data) |->
            WithCluster(data[j], IF j - 1 < n_samples_out THEN 0 ELSE 1)]

\* dist >= radius_threshold instead of dist > radius_threshold
RadiusThresholdSplit_AtLeast(data) ==
    [j \in 1..Len(data) |->
        WithCluster(data[j],
                    IF data[j].x * data[j].x + data[j].y * data[j].y
                          >= ((3 * Scale) \div 4) * ((3 * Scale) \div 4)
                    THEN 0 ELSE 1)]

\* dist > radius_threshold, dist = Math.sqrt(p.x * p.x + p.y * p.y), 0.75
RadiusThresholdSplit(data) ==
    LET radius_threshold == (3 * Scale) \div 4
        outside(p) ==
            /\ p.x # NaN
            /\ p.y # NaN
            /\ p.x * p.x + p.y * p.y > radius_threshold * radius_threshold
    IN  [j \in 1..Len(data) |->
            WithCluster(data[j], IF outside(data[j]) THEN 0 ELSE 1)]

runSpectralClustering(data, params, datasetType, tape, off) ==
    LET clusteredData ==
            CASE datasetType = "Moons" -> HalfIndexSplit(data)
              [] datasetType = "Circles" -> RadiusThresholdSplit(data)
              [] OTHER -> assignClustersByCentroids(data, params.n_clusters, tape, off)
        used == IF datasetType \in {"Moons", "Circles"} THEN 0
                ELSE assignClustersByCentroidsDraws(data, params.n_clusters)
    IN  [algorithm |-> "Spectral Clustering",
         data |-> clusteredData,
         metrics |-> generateMockMetrics(tape, off + used),
         params |-> params]

runSpectralClusteringDraws(data, params, datasetType) ==
    MetricsDraws + (IF datasetType \in {"Moons", "Circles"} THEN 0
                    ELSE assignClustersByCentroidsDraws(data, params.n_clusters))

runKMeans(data, params, datasetType, tape, off) ==
    LET clusteredData ==
            CASE datasetType \in {"Moons", "Circles"} ->
                    assignClustersByXSplit(data, params.n_clusters)
              [] OTHER -> assignClustersByCentroids(data, params.n_clusters, tape, off)
        used == IF datasetType \in {"Moons", "Circles"} THEN 0
                ELSE assignClustersByCentroidsDraws(data, params.n_clusters)
    IN  [algorithm |-> "K-Means",
         data |-> clusteredData,
         metrics |-> generateMockMetrics(tape, off + used),
         params |-> params]

runKMeansDraws(data, params, datasetType) ==
    MetricsDraws + (IF datasetType \in {"Moons", "Circles"} THEN 0
                    ELSE assignClustersByCentroidsDraws(data, params.n_clusters))

runAgglomerativeClustering(data, params, datasetType, tape, off) ==
    LET clusteredData ==
            CASE datasetType \in {"Moons", "Circles"} ->
                    assignClustersByXSplit(data, params.n_clusters)
              [] OTHER -> assignClustersByCentroids(data, params.n_clusters, tape, off)
        used == IF datasetType \in {"Moons", "Circles"} THEN 0
                ELSE assignClustersByCentroidsDraws(data, params.n_clusters)
    IN  [algorithm |-> "Agglomerative Clustering",
         data |-> clusteredData,
         metrics |-> generateMockMetrics(tape, off + used),
         params |-> params]

runAgglomerativeClusteringDraws(data, params, datasetType) ==
    MetricsDraws + (IF datasetType \in {"Moons", "Circles"} THEN 0
                    ELSE assignClustersByCentroidsDraws(data, params.n_clusters))

DBSCANClusters == 3

\* Math.floor(data.length * 0.5)
NoiseCount_Half(length) == (length * 5) \div 10

\* Math.floor(data.length * 0.05)
NoiseCount(length) == (length * 5) \div 100

\* the loop for (i = 0; i < noiseCount; i++) clusteredData[randomIndex].cluster = -1
RECURSIVE MarkNoise(_, _, _, _)
MarkNoise(clusteredData, noiseCount, tape, off) ==
    IF noiseCount <= 0 THEN clusteredData
    ELSE LET randomIndex == RandomIndex(Rnd(tape, off), Len(clusteredData))
         IN  MarkNoise([clusteredData EXCEPT ![randomIndex].cluster = -1],
                       noiseCount - 1, tape, off + 1)

runDBSCAN(data, params, datasetType, tape, off) ==
    LET k == DBSCANClusters
        noiseCount == NoiseCount(Len(data))
        clusteredData ==
            CASE datasetType = "Moons" -> HalfIndexSplit(data)
              [] datasetType = "Circles" -> RadiusThresholdSplit(data)
              [] OTHER ->
                    MarkNoise(assignClustersByCentroids(data, k, tape, off),
                              noiseCount, tape,
                              off + assignClustersByCentroidsDraws(data, k))
        used == IF datasetType \in {"Moons", "Circles"} THEN 0
                ELSE assignClustersByCentroidsDraws(data, k) + noiseCount
    IN  [algorithm |-> "DBSCAN",
         data |-> clusteredData,
         metrics |-> generateMockMetrics(tape, off + used),
         params |-> params]

----------------------------------------------------------------------------
(* CSV parsing: clusteringService.ts *)

\* the value of a missing array element (row[1] of a one-field row)
Undefined == NaN + 1

Whitespace == {" ", "\t", "\r"}
Digits == {"0", "1", "2", "3", "4", "5", "6", "7", "8", "9"}

DigitVal(c) ==
    CASE c = "0" -> 0 [] c = "1" -> 1 [] c = "2" -> 2 [] c = "3" -> 3
      [] c = "4" -> 4 [] c = "5" -> 5 [] c = "6" -> 6 [] c = "7" -> 7
      [] c = "8" -> 8 [] c = "9" -> 9

\* text.split(sep): the pieces between the separators (one piece, possibly
\* empty, when there is no separator)
RECURSIVE Split(_, _)
Split(text, sep) ==
    LET hits == {i \in 1..Len(text) : text[i] = sep}
    IN  IF hits = {} THEN << text >>
        ELSE LET i == CHOOSE h \in hits : \A g \in hits : h <= g
             IN  << SubSeq(text, 1, i - 1) >> \o Split(SubSeq(text, i + 1, Len(text)), sep)

\* row.trim()
Trim(row) ==
    LET keep == {i \in 1..Len(row) : row[i] \notin Whitespace}
    IN  IF keep = {} THEN << >>
        ELSE LET first == CHOOSE i \in keep : \A j \in keep : i <= j
                 last == CHOOSE i \in keep : \A j \in keep : j <= i
             IN  SubSeq(row, first, last)

\* the first index >= i of a non-digit of v (Len(v) + 1 when there is none)
RECURSIVE DigitsEnd(_, _)
DigitsEnd(v, i) ==
    IF i > Len(v) \/ v[i] \notin Digits THEN i ELSE DigitsEnd(v, i + 1)

\* the number written by the digits v[i], ..., v[j - 1]
RECURSIVE DigitsValue(_, _, _)
DigitsValue(v, i, j) ==
    IF j <= i THEN 0 ELSE 10 * DigitsValue(v, i, j - 1) + DigitVal(v[j - 1])

\* the fraction written by the digits v[i], ..., v[j - 1] after the point,
\* in fixed point (thousandths)
FractionValue(v, i, j) ==
    (IF i < j THEN 100 * DigitVal(v[i]) ELSE 0)
  + (IF i + 1 < j THEN 10 * DigitVal(v[i + 1]) ELSE 0)
  + (IF i + 2 < j THEN DigitVal(v[i + 2]) ELSE 0)

\* parseFloat(v) of a trimmed field: the longest prefix
\* [+-] digits [. digits] that holds a digit, NaN when there is none
parseFloat(v) ==
    LET signed == Len(v) >= 1 /\ v[1] \in {"-", "+"}
        i0 == IF signed THEN 2 ELSE 1
        i1 == DigitsEnd(v, i0)
        hasPoint == i1 <= Len(v) /\ v[i1] = "."
        f0 == i1 + 1
        f1 == IF hasPoint THEN DigitsEnd(v, f0) ELSE f0
        magnitude == DigitsValue(v, i0, i1) * Scale
                     + (IF hasPoint THEN FractionValue(v, f0, f1) ELSE 0)
    IN  IF i1 = i0 /\ (~hasPoint \/ f1 = f0) THEN NaN
        ELSE IF signed /\ v[1] = "-" THEN 0 - magnitude
        ELSE magnitude

\* a row mapping that ignores options.dropLastColumn
RowValues_KeepsLast(row, dropLastColumn) ==
    LET fields == Split(row, ",")
    IN  [i \in 1..Len(fields) |-> parseFloat(Trim(fields[i]))]

\* row.split(',').map(v => parseFloat(v.trim())), then the optional
\* values.slice(0, -1)
RowValues(row, dropLastColumn) ==
    LET fields == Split(row, ",")
        values == [i \in 1..Len(fields) |-> parseFloat(Trim(fields[i]))]
    IN  IF dropLastColumn THEN SubSeq(values, 1, Len(values) - 1) ELSE values

\* a test that accepts every row
AllNumbers_Always(values) == TRUE

\* values.every(v => !isNaN(v))
AllNumbers(values) == \A i \in 1..Len(values) : values[i] # NaN

\* a filter that keeps every row
NonBlankRows_KeepsAll(rows) == rows

\* text.split('\n').filter(row => row.trim() !== ''), keeping the order
RECURSIVE NonBlankRows(_)
NonBlankRows(rows) ==
    IF rows = << >> THEN << >>
    ELSE (IF Trim(rows[1]) # << >> THEN << rows[1] >> ELSE << >>)
         \o NonBlankRows(SubSeq(rows, 2, Len(rows)))

\* .filter(row => row !== null) of the mapped rows, keeping the order
RECURSIVE NumericRows(_)
NumericRows(parsed) ==
    IF parsed = << >> THEN << >>
    ELSE (IF AllNumbers(parsed[1]) THEN << parsed[1] >> ELSE << >>)
         \o NumericRows(SubSeq(parsed, 2, Len(parsed)))

\* an index that is taken as 1-based
Element_OneBased(row, i) == IF 1 <= i /\ i <= Len(row) THEN row[i] ELSE Undefined

\* row[i] of a numeric row (0-based i)
Element(row, i) == IF i + 1 <= Len(row) THEN row[i + 1] ELSE Undefined

ErrHeader == << "CSV file must contain a header and at least one data row." >>
ErrNoRows == << "No valid numeric data rows found in the CSV file." >>
ErrFeatures(numFeatures) ==
    << "The processed data has only ", ToString(numFeatures),
       " feature(s). At least two are required for 2D visualization." >>

\* new Error(message)
NewError(message) == [isError |-> TRUE, message |-> message]
\* a thrown or rejected value that is not an Error (the reader's error event)
NotAnError == [isError |-> FALSE, message |-> << >>]

\* The reader.onload handler of parseCSV on the text that was read: the
\* promise resolves with points or rejects with an Error.
parseCSV(text, dropLastColumn) ==
    LET rows == NonBlankRows(Split(text, "\n"))
        dataRows == SubSeq(rows, 2, Len(rows))
        parsed == [i \in 1..Len(dataRows) |-> RowValues(dataRows[i], dropLastColumn)]
        numericData == NumericRows(parsed)
        numFeatures == Len(numericData[1])
    IN  IF Len(rows) < 2 THEN [ok |-> FALSE, error |-> NewError(ErrHeader)]
        ELSE IF Len(numericData) = 0 THEN [ok |-> FALSE, error |-> NewError(ErrNoRows)]
        ELSE IF numFeatures < 2
             THEN [ok |-> FALSE, error |-> NewError(ErrFeatures(numFeatures))]
        ELSE [ok |-> TRUE,
              points |-> [i \in 1..Len(numericData) |->
                             [x |-> Element(numericData[i], 0),
                              y |-> Element(numericData[i], 1)]]]

----------------------------------------------------------------------------
(* Commentary: geminiService.ts *)

ErrNoKey ==
    << "Error", ":", " VITE_GEMINI_API_KEY environment variable not set.",
       " Please configure it to use Gemini analysis." >>
ErrRemote(message) ==
    << "An ", "error occurred", " while analyzing the results with Gemini: " >> \o message
ErrUnknown ==
    << "An ", "unknown ", "error occurred", " while analyzing the results with Gemini." >>
ErrParsing(message) == << "Error", " parsing model response: " >> \o message
NoResponse == << "No response from model" >>
ErrUnsupported ==
    << "Unsupported Google GenAI client usage: cannot find generation method on client" >>

\* what the library and the remote service may do, as seen by the function
ClientOutcomes == {"constructed", "constructorThrows"}
RemoteOutcomes ==
    { "noGenerationMethod",    \* neither models.generateContent nor getGenerativeModel
      "throwsError",           \* the awaited call throws an Error
      "throwsOther",           \* the awaited call throws a value that is no Error
      "nullResult",            \* rawResult == null
      "text",                  \* rawResult.text() (or response.text()) returns the text
      "textThrows",            \* rawResult.text() throws an Error
      "candidates",            \* candidates[0].content.parts hold the text
      "otherShape" }           \* none of the known shapes: JSON.stringify

ModelText == << "## Overall Summary" >>
RemoteMessage == << "fetch failed" >>
DecodeMessage == << "text is not available" >>
CtorMessage == << "client construction failed" >>
JsonDump == << "{", "}" >>

Resolved(value) == [settled |-> "resolved", value |-> value]
Rejected(reason) == [settled |-> "rejected", reason |-> reason]

\* The promise analyzeClusteringResults returns, for a credential that is
\* present or not, a client constructor that returns or throws and an
\* outcome of the remote call.
analyzeClusteringResults(apiKey, client, remote) ==
    IF ~apiKey THEN Resolved(ErrNoKey)
    ELSE IF client = "constructorThrows" THEN Rejected([isError |-> TRUE, message |-> CtorMessage])
    ELSE CASE remote = "noGenerationMethod" -> Resolved(ErrRemote(ErrUnsupported))
           [] remote = "throwsError" -> Resolved(ErrRemote(RemoteMessage))
           [] remote = "throwsOther" -> Resolved(ErrUnknown)
           [] remote = "nullResult" -> Resolved(NoResponse)
           [] remote = "text" -> Resolved(ModelText)
           [] remote = "textThrows" -> Resolved(ErrParsing(DecodeMessage))
           [] remote = "candidates" -> Resolved(ModelText)
           [] remote = "otherShape" -> Resolved(JsonDump)

\* text.startsWith(prefix) on token sequences
StartsWith(text, prefix) ==
    Len(text) >= Len(prefix) /\ SubSeq(text, 1, Len(prefix)) = prefix

----------------------------------------------------------------------------
(* The orchestrator: App.tsx *)

Null == << "<null>" >>
NullMetrics == [null |-> TRUE]

ErrLoad ==
    << "Could not load or generate data.",
       " Please select a valid dataset or upload a valid CSV file." >>
ErrUnknownRun == << "An unknown error occurred." >>

NoFile == [null |-> TRUE, name |-> << >>, text |-> << >>]

\* "a,b,c\n1,2,0\n2,1,1": three columns, the last one a label
GoodFile ==
    [null |-> FALSE, name |-> << "iris.csv" >>,
     text |-> << "a", ",", "b", ",", "c", "\n", "1", ",", "2", ",", "0", "\n",
                 "2", ",", "1", ",", "1" >>]
\* "a,b\nx,1\n1,2": two columns, one row that is not numeric
NarrowFile ==
    [null |-> FALSE, name |-> << "narrow.csv" >>,
     text |-> << "a", ",", "b", "\n", "x", ",", "1", "\n", "1", ",", "2" >>]
\* "a,b": a header and nothing else
HeaderOnlyFile ==
    [null |-> FALSE, name |-> << "header.csv" >>,
     text |-> << "a", ",", "b" >>]

Files == {GoodFile, NarrowFile, HeaderOnlyFile}

Linkages == {"ward", "average"}
EpsValues == {Scale \div 2}

Params(k, linkage, eps) ==
    [spectral |-> [n_clusters |-> k],
     kmeans |-> [n_clusters |-> k],
     agglomerative |-> [n_clusters |-> k, linkage |-> linkage],
     dbscan |-> [eps |-> eps]]

\* the parameter bundles given to runAnalysis
ParamBundles ==
    {Params(k, "ward", e) : k \in 2..MaxK, e \in EpsValues}
    \cup {Params(2, l, e) : l \in Linkages, e \in EpsValues}

\* the bundle of the on-mount run
MountParams == Params(2, "ward", Scale \div 2)

\* the tapes of Math.random() during a run
RunTapes == {<< 0, 999, 500, 250 >>, << 500, 0 >>}

NoRun ==
    [pc |-> "notStarted", datasetType |-> "Moons", file |-> NoFile,
     params |-> MountParams, dropLastColumn |-> FALSE, tape |-> << 0 >>,
     \* history of the run, kept until the next run starts
     points |-> 0 - 1, mocks |-> << >>, analyzeCalls |-> 0,
     client |-> "none", remote |-> "none",
     settlement |-> [settled |-> "none"], caught |-> NotAnError,
     outcome |-> "none"]

\* The values the runs of the model compute from their inputs, each
\* computed once and looked up by the actions.

\* parseCSV(file, dropLastColumn) of line 48
Parsed ==
    [file \in Files |->
        [dropLastColumn \in BOOLEAN |-> parseCSV(file.text, dropLastColumn)]]

\* generateDataset(datasetType) of line 53
Generated ==
    [datasetType \in DatasetTypes |->
        [tape \in RunTapes |-> generateDataset(datasetType, NSamples, tape)]]

\* the values of currentData
Acquirable ==
    {Generated[datasetType][tape] : datasetType \in DatasetTypes, tape \in RunTapes}
    \cup {Parsed[d[1]][d[2]].points :
             d \in {e \in Files \X BOOLEAN : Parsed[e[1]][e[2]].ok}}

\* the number of calls of Math.random() before the first mock operation
Offsets == {0} \cup {generateDatasetDraws(datasetType, NSamples) : datasetType \in DatasetTypes}

\* a finished run: its locals are gone
Finished(run, outcome) ==
    [NoRun EXCEPT !.pc = "done", !.outcome = outcome, !.points = run.points,
                  !.mocks = run.mocks, !.analyzeCalls = run.analyzeCalls,
                  !.client = run.client]

RunIds == 1..MaxRuns
Started == {r \in RunIds : runs[r].pc # "notStarted"}
InFlight == {r \in RunIds : runs[r].pc \notin {"notStarted", "done"}}
\* a run is executing a synchronous stretch of runAnalysis: no event handler
\* and no other continuation runs until it reaches its next await
Executing == \E r \in RunIds : runs[r].pc = "begun"

\* the four mock operations, in the order of the array literal
Results(currentData, params, datasetType, tape, off) ==
    LET o1 == off
        o2 == o1 + runSpectralClusteringDraws(currentData, params.spectral, datasetType)
        o3 == o2 + runKMeansDraws(currentData, params.kmeans, datasetType)
        o4 == o3 + runAgglomerativeClusteringDraws(currentData, params.agglomerative, datasetType)
    IN  << runSpectralClustering(currentData, params.spectral, datasetType, tape, o1),
           runKMeans(currentData, params.kmeans, datasetType, tape, o2),
           runAgglomerativeClustering(currentData, params.agglomerative, datasetType, tape, o3),
           runDBSCAN(currentData, params.dbscan, datasetType, tape, o4) >>

\* the results array of lines 66-71 for each dataset, parameter bundle and
\* dataset type of the model, computed once
Mocked ==
    [currentData \in Acquirable |->
        [params \in ParamBundles \cup {MountParams} |->
            [datasetType \in DatasetTypes |->
                [tape \in RunTapes |->
                    [off \in Offsets |->
                        Results(currentData, params, datasetType, tape, off)]]]]]

\* results.reduce(...) from result i on, acc the accumulator
RECURSIVE Reduce(_, _, _)
Reduce(results, i, acc) ==
    IF i > Len(results) THEN acc
    ELSE Reduce(results, i + 1,
            [silhouette |-> MathMax(acc.silhouette, results[i].metrics.silhouette),
             calinskiHarabasz |-> MathMax(acc.calinskiHarabasz, results[i].metrics.calinskiHarabasz),
             daviesBouldin |-> MathMax(acc.daviesBouldin, results[i].metrics.daviesBouldin)])

\* the fold started at the second result
Maxes_SkipsFirst(results) ==
    Reduce(results, 2,
           [silhouette |-> NegInf, calinskiHarabasz |-> NegInf, daviesBouldin |-> NegInf])

Maxes(results) ==
    Reduce(results, 1,
           [silhouette |-> NegInf, calinskiHarabasz |-> NegInf, daviesBouldin |-> NegInf])

\* a button that is never disabled
ButtonDisabled_Never == FALSE

\* disabled={isLoading} of the Analyze button
ButtonDisabled == isLoading

\* a run that does not test the length of the data
IsLoadFailure_Never(currentData) == FALSE

\* currentData.length === 0
IsLoadFailure(currentData) == Len(currentData) = 0

\* a catch block that drops the message of the error
CatchMessage_AlwaysUnknown(e) == ErrUnknownRun

\* e instanceof Error ? e.message : 'An unknown error occurred.'
CatchMessage(e) == IF e.isError THEN e.message ELSE ErrUnknownRun

\* a start of the run that keeps the previous error (no setError(null))
runAnalysisBegin_KeepsError(r, datasetType, file, params, dropLastColumn, tape) ==
    /\ isLoading' = TRUE
    /\ geminiAnalysis' = << >>
    /\ clusterResults' = << >>
    /\ maxMetrics' = NullMetrics
    /\ runs' = [q \in RunIds |->
                   IF q = r
                   THEN [NoRun EXCEPT !.pc = "begun", !.datasetType = datasetType,
                                      !.file = file, !.params = params,
                                      !.dropLastColumn = dropLastColumn, !.tape = tape]
                   ELSE IF runs[q].pc = "done" THEN Finished(NoRun, "none")
                   ELSE runs[q]]
    /\ UNCHANGED << error, dataset, datasetName, xAxisLabel, yAxisLabel, API_KEY, panel, fn >>

\* Lines 36-40 of runAnalysis: the run r starts and clears the state.
runAnalysisBegin(r, datasetType, file, params, dropLastColumn, tape) ==
    /\ isLoading' = TRUE
    /\ error' = Null
    /\ geminiAnalysis' = << >>
    /\ clusterResults' = << >>
    /\ maxMetrics' = NullMetrics
    /\ runs' = [q \in RunIds |->
                   IF q = r
                   THEN [NoRun EXCEPT !.pc = "begun", !.datasetType = datasetType,
                                      !.file = file, !.params = params,
                                      !.dropLastColumn = dropLastColumn, !.tape = tape]
                   ELSE IF runs[q].pc = "done" THEN Finished(NoRun, "none")
                   ELSE runs[q]]
    /\ UNCHANGED << dataset, datasetName, xAxisLabel, yAxisLabel, API_KEY, panel, fn >>

\* The useEffect of App: the initial run on page load.  Effects run before
\* any event handler does.
OnMount ==
    /\ ~mounted
    /\ mounted' = TRUE
    /\ \E tape \in RunTapes :
           runAnalysisBegin(1, "Moons", NoFile, MountParams, FALSE, tape)

\* A click on the Analyze button: handleAnalyzeClick calls onAnalyze, which is
\* runAnalysis.
handleAnalyzeClick(datasetType, file, params, dropLastColumn) ==
    /\ mounted
    /\ ~ButtonDisabled
    /\ ~Executing
    /\ Cardinality(Started) < MaxRuns
    /\ \E tape \in RunTapes :
           runAnalysisBegin(Cardinality(Started) + 1, datasetType, file, params,
                            dropLastColumn, tape)
    /\ UNCHANGED mounted

\* Lines 57-82 of runAnalysis, once currentData is known: the load failure,
\* or the four mock operations, the maxima and the call of the commentary.
runAnalysisContinue(r, currentData, currentDatasetName, axisX, axisY, off) ==
    LET run == runs[r]
    IN  /\ xAxisLabel' = axisX
        /\ yAxisLabel' = axisY
        /\ IF IsLoadFailure(currentData)
           THEN /\ error' = ErrLoad
                /\ isLoading' = FALSE
                /\ runs' = [runs EXCEPT ![r] =
                               [Finished(run, "loadFailure") EXCEPT
                                   !.points = Len(currentData)]]
                /\ UNCHANGED << dataset, datasetName, clusterResults, maxMetrics >>
           ELSE \E results \in {Mocked[currentData][run.params][run.datasetType]
                                        [run.tape][off]} :
                \E maxes \in {Maxes(results)} :
                /\ dataset' = currentData
                /\ datasetName' = currentDatasetName
                /\ maxMetrics' = maxes
                /\ clusterResults' = results
                /\ \E client \in ClientOutcomes :
                       runs' = [runs EXCEPT
                                   ![r].pc = "awaitAnalysis",
                                   ![r].points = Len(currentData),
                                   ![r].mocks = [i \in 1..Len(results) |-> results[i].algorithm],
                                   ![r].analyzeCalls = run.analyzeCalls + 1,
                                   ![r].client = IF API_KEY THEN client ELSE "none"]
                /\ UNCHANGED << error, isLoading >>
        /\ UNCHANGED << geminiAnalysis, API_KEY, mounted, panel, fn >>

\* Lines 42-55 of runAnalysis: the dataset is read from the file (the run
\* then waits for the reader) or generated.
runAnalysisAcquire(r) ==
    LET run == runs[r]
    IN  /\ run.pc = "begun"
        /\ IF run.datasetType = "Custom" /\ ~run.file.null
           THEN /\ runs' = [runs EXCEPT ![r].pc = "reading"]
                /\ UNCHANGED << dataset, datasetName, clusterResults, maxMetrics,
                                geminiAnalysis, isLoading, error, xAxisLabel,
                                yAxisLabel, API_KEY, mounted, panel, fn >>
           ELSE \E currentData \in {Generated[run.datasetType][run.tape]} :
                    runAnalysisContinue(r, currentData, << run.datasetType >>,
                        "Feature 1", "Feature 2",
                        generateDatasetDraws(run.datasetType, NSamples))

\* a catch block with no finally block after it
runAnalysisCatch_NoFinally(r, e, outcome) ==
    /\ error' = CatchMessage(e)
    /\ UNCHANGED isLoading
    /\ runs' = [runs EXCEPT ![r] = [Finished(runs[r], outcome) EXCEPT !.caught = e]]

\* The catch and finally blocks of runAnalysis.
runAnalysisCatch(r, e, outcome) ==
    /\ error' = CatchMessage(e)
    /\ isLoading' = FALSE
    /\ runs' = [runs EXCEPT ![r] = [Finished(runs[r], outcome) EXCEPT !.caught = e]]

\* The reader of parseCSV finishes: onload with the text, or onerror.
FileReadCompletes(r, event) ==
    LET run == runs[r]
    IN  /\ run.pc = "reading"
        /\ ~Executing
        /\ \E parsed \in {Parsed[run.file][run.dropLastColumn]} :
           IF event = "load" /\ parsed.ok
           THEN runAnalysisContinue(r, parsed.points, run.file.name,
                    "Principal Component 1", "Principal Component 2", 0)
           ELSE /\ runAnalysisCatch(r,
                       IF event = "load" THEN parsed.error ELSE NotAnError,
                       IF event = "load" THEN "parseFailure" ELSE "readFailure")
                /\ UNCHANGED << dataset, datasetName, clusterResults, maxMetrics,
                                geminiAnalysis, xAxisLabel, yAxisLabel, API_KEY,
                                mounted, panel, fn >>

\* a resumption that treats a returned error string as a failure of the run
runAnalysisResume_ErrorStringFails(r, settlement, reached) ==
    /\ IF StartsWith(settlement.value, << "Error" >>)
          \/ StartsWith(settlement.value, << "An " >>)
       THEN /\ error' = settlement.value
            /\ clusterResults' = << >>
            /\ maxMetrics' = NullMetrics
            /\ UNCHANGED geminiAnalysis
       ELSE /\ geminiAnalysis' = settlement.value
            /\ UNCHANGED << error, clusterResults, maxMetrics >>
    /\ isLoading' = FALSE
    /\ runs' = [runs EXCEPT ![r] =
                   [Finished(runs[r], "loaded") EXCEPT
                       !.remote = reached, !.settlement = settlement]]

\* Line 83 of runAnalysis and its finally block: the run resumes with the
\* string the commentary returned.
runAnalysisResume(r, settlement, reached) ==
    /\ geminiAnalysis' = settlement.value
    /\ isLoading' = FALSE
    /\ runs' = [runs EXCEPT ![r] =
                   [Finished(runs[r], "loaded") EXCEPT
                       !.remote = reached, !.settlement = settlement]]
    /\ UNCHANGED << error, clusterResults, maxMetrics >>

\* The promise of analyzeClusteringResults settles and the run resumes at
\* line 83 (or in the catch block), then runs the finally block.
AnalysisSettles(r, remote) ==
    LET run == runs[r]
        settlement == analyzeClusteringResults(API_KEY, run.client, remote)
        \* the remote call is made only with a credential and a client
        reached == IF API_KEY /\ run.client = "constructed" THEN remote ELSE "none"
    IN  /\ run.pc = "awaitAnalysis"
        /\ ~Executing
        /\ IF settlement.settled = "resolved"
           THEN runAnalysisResume(r, settlement, reached)
           ELSE /\ error' = CatchMessage(settlement.reason)
                /\ isLoading' = FALSE
                /\ runs' = [runs EXCEPT ![r] =
                               [Finished(run, "analysisRejected") EXCEPT
                                   !.remote = reached, !.settlement = settlement,
                                   !.caught = settlement.reason]]
                /\ UNCHANGED << geminiAnalysis, clusterResults, maxMetrics >>
        /\ UNCHANGED << dataset, datasetName, xAxisLabel, yAxisLabel, API_KEY,
                        mounted, panel, fn >>

NoCall == [op |-> "none"]

\* the useState initial values of ControlPanel, before its mount effect
NoPanel ==
    [mounted |-> FALSE,
     datasetType |-> "Moons",
     selectedFile |-> NoFile,
     dropLastColumn |-> TRUE,
     datasetHint |-> "",
     params |-> Params(2, "ward", Scale \div 2)]

Init ==
    /\ dataset = << >>
    /\ datasetName = << "Moons" >>
    /\ clusterResults = << >>
    /\ maxMetrics = NullMetrics
    /\ geminiAnalysis = << >>
    /\ isLoading = FALSE
    /\ error = Null
    /\ xAxisLabel = "Feature 1"
    /\ yAxisLabel = "Feature 2"
    /\ API_KEY \in BOOLEAN
    /\ mounted = FALSE
    /\ runs = [r \in RunIds |-> NoRun]
    /\ panel = NoPanel
    /\ fn = NoCall

Next ==
    \/ OnMount
    \/ \E datasetType \in DatasetTypes, file \in Files \cup {NoFile},
          params \in ParamBundles, dropLastColumn \in BOOLEAN :
           handleAnalyzeClick(datasetType, file, params, dropLastColumn)
    \/ \E r \in RunIds : runAnalysisAcquire(r)
    \/ \E r \in RunIds, event \in {"load", "error"} : FileReadCompletes(r, event)
    \/ \E r \in RunIds, remote \in RemoteOutcomes : AnalysisSettles(r, remote)

Spec == Init /\ [][Next]_vars

----------------------------------------------------------------------------
(* The generators alone: generateDataset is called with any dataset type,  *)
(* any sample count up to MaxN and any tape.                               *)

CallGenerateDataset(type, n_samples, tape) ==
    /\ fn' = [op |-> "generateDataset", type |-> type, n_samples |-> n_samples,
              tape |-> tape, out |-> generateDataset(type, n_samples, tape)]
    /\ UNCHANGED appVars

NextGen ==
    \E type \in DatasetTypes, n_samples \in 0..MaxN, tape \in Tapes :
        CallGenerateDataset(type, n_samples, tape)

SpecGen == Init /\ [][NextGen]_vars

----------------------------------------------------------------------------
(* The CSV parser alone: the onload handler of parseCSV runs on any text   *)
(* of at most MaxLines lines, with either value of dropLastColumn.         *)

MaxLines == 3

\* the lines a text is made of: blank lines and rows of one to three fields
CsvLines ==
    { << >>,
      << " " >>,
      << "h" >>,
      << "1" >>,
      << "1", ",", "2" >>,
      << " ", "3", ".", "5", " ", ",", "-", "4", "a", "\r" >>,
      << "x", ",", "2" >>,
      << "1", ",", "2", ",", "3" >>,
      << "1", ",", "2", ",", "x" >> }

\* lines.join('\n')
RECURSIVE JoinLines(_)
JoinLines(lines) ==
    IF lines = << >> THEN << >>
    ELSE IF Len(lines) = 1 THEN lines[1]
    ELSE lines[1] \o << "\n" >> \o JoinLines(SubSeq(lines, 2, Len(lines)))

CsvTexts == {JoinLines(lines) : lines \in UNION {[1..n -> CsvLines] : n \in 0..MaxLines}}

CallParseCSV(text, dropLastColumn) ==
    /\ fn = NoCall
    /\ fn' = [op |-> "parseCSV", text |-> text, dropLastColumn |-> dropLastColumn,
              out |-> parseCSV(text, dropLastColumn)]
    /\ UNCHANGED appVars

NextCsv ==
    /\ fn = NoCall
    /\ \E text \in CsvTexts, dropLastColumn \in BOOLEAN : CallParseCSV(text, dropLastColumn)

SpecCsv == Init /\ [][NextCsv]_vars

----------------------------------------------------------------------------
(* The two assignments alone: each is called once, on any sequence of at   *)
(* most MaxPoints points of a small grid, with any k up to MaxK.           *)

MaxPoints == 3

\* points with finite coordinates: two at the same distance from the
\* origin, one at distance 0.75 exactly, one at the origin
GridPoints ==
    { [x |-> 0 - Scale, y |-> 0], [x |-> 0, y |-> 0],
      [x |-> (3 * Scale) \div 4, y |-> 0], [x |-> 0, y |-> Scale] }

PointSeqs == UNION {[1..n -> GridPoints] : n \in 0..MaxPoints}

CallXSplit(data, k) ==
    /\ fn = NoCall
    /\ fn' = [op |-> "assignClustersByXSplit", data |-> data, k |-> k,
              out |-> assignClustersByXSplit(data, k)]
    /\ UNCHANGED appVars

CallCentroids(data, k, tape) ==
    /\ fn = NoCall
    /\ fn' = [op |-> "assignClustersByCentroids", data |-> data, k |-> k,
              tape |-> tape,
              means |-> IF Len(data) = 0 \/ k <= 0 THEN << >> ELSE Means(data, k, tape, 0),
              out |-> assignClustersByCentroids(data, k, tape, 0)]
    /\ UNCHANGED appVars

NextSplit ==
    /\ fn = NoCall
    /\ \/ \E data \in PointSeqs, k \in 0..MaxK : CallXSplit(data, k)
       \/ \E data \in PointSeqs, k \in 0..MaxK, tape \in Tapes : CallCentroids(data, k, tape)

SpecSplit == Init /\ [][NextSplit]_vars

----------------------------------------------------------------------------
(* The four mock operations alone: each is called once, with any dataset   *)
(* type, on any short sequence of grid points or on a longer dataset.      *)

\* a dataset of n points, long enough for runDBSCAN to mark noise
LongData(n) ==
    [i \in 1..n |-> [x |-> (((i * 7) % 5) - 2) * (Scale \div 2),
                     y |-> (i % 3) * (Scale \div 2)]]

LongSizes == {19, 20, 40}

\* the means runDBSCAN draws for Blobs and Custom data
DBSCANMeans(data, datasetType, tape) ==
    IF datasetType \in {"Moons", "Circles"} \/ Len(data) = 0 THEN << >>
    ELSE Means(data, DBSCANClusters, tape, 0)

CallSpectral(data, params, datasetType, tape) ==
    /\ fn = NoCall
    /\ fn' = [op |-> "runSpectralClustering", data |-> data, params |-> params,
              datasetType |-> datasetType, tape |-> tape,
              out |-> runSpectralClustering(data, params, datasetType, tape, 0)]
    /\ UNCHANGED appVars

CallKMeans(data, params, datasetType, tape) ==
    /\ fn = NoCall
    /\ fn' = [op |-> "runKMeans", data |-> data, params |-> params,
              datasetType |-> datasetType, tape |-> tape,
              out |-> runKMeans(data, params, datasetType, tape, 0)]
    /\ UNCHANGED appVars

CallAgglomerative(data, params, datasetType, tape) ==
    /\ fn = NoCall
    /\ fn' = [op |-> "runAgglomerativeClustering", data |-> data, params |-> params,
              datasetType |-> datasetType, tape |-> tape,
              out |-> runAgglomerativeClustering(data, params, datasetType, tape, 0)]
    /\ UNCHANGED appVars

CallDBSCAN(data, params, datasetType, tape) ==
    /\ fn = NoCall
    /\ fn' = [op |-> "runDBSCAN", data |-> data, params |-> params,
              datasetType |-> datasetType, tape |-> tape,
              means |-> DBSCANMeans(data, datasetType, tape),
              out |-> runDBSCAN(data, params, datasetType, tape, 0)]
    /\ UNCHANGED appVars

NextRuns ==
    /\ fn = NoCall
    /\ \/ \E data \in PointSeqs, k \in 1..MaxK, datasetType \in DatasetTypes, tape \in RunTapes :
              CallSpectral(data, [n_clusters |-> k], datasetType, tape)
       \/ \E data \in PointSeqs, k \in 1..MaxK, datasetType \in DatasetTypes, tape \in RunTapes :
              CallKMeans(data, [n_clusters |-> k], datasetType, tape)
       \/ \E data \in PointSeqs, k \in 1..MaxK, linkage \in Linkages,
             datasetType \in DatasetTypes, tape \in RunTapes :
              CallAgglomerative(data, [n_clusters |-> k, linkage |-> linkage], datasetType, tape)
       \/ \E data \in PointSeqs, eps \in {Scale \div 2, 2 * Scale},
             datasetType \in DatasetTypes, tape \in RunTapes :
              CallDBSCAN(data, [eps |-> eps], datasetType, tape)
       \/ \E n \in LongSizes, eps \in {Scale \div 2, 2 * Scale},
             datasetType \in DatasetTypes, tape \in Tapes :
              CallDBSCAN(LongData(n), [eps |-> eps], datasetType, tape)

\* the pure operations do not read the credential
InitPure == Init /\ API_KEY

SpecRuns == InitPure /\ [][NextRuns]_vars

----------------------------------------------------------------------------
(* A generated Moons dataset handed unmodified to the two operations that  *)
(* split it by half-index, as runAnalysis does.                            *)

\* the loop of generateMoons that pushed each point, in the order of the pushes
generateMoonsArcs(n_samples) ==
    LET n_samples_out == n_samples \div 2
        n_samples_in == n_samples - n_samples_out
    IN  [j \in 1..n_samples_out |-> "top"] \o [j \in 1..n_samples_in |-> "bottom"]

CallMoonsSpectral(n_samples, params, tape) ==
    /\ \E data \in {generateDataset("Moons", n_samples, tape)} :
          fn' = [op |-> "Moons/runSpectralClustering", n_samples |-> n_samples,
                 params |-> params, tape |-> tape, data |-> data,
                 arcs |-> generateMoonsArcs(n_samples),
                 out |-> runSpectralClustering(data, params, "Moons", tape,
                                               generateDatasetDraws("Moons", n_samples))]
    /\ UNCHANGED appVars

CallMoonsDBSCAN(n_samples, params, tape) ==
    /\ \E data \in {generateDataset("Moons", n_samples, tape)} :
          fn' = [op |-> "Moons/runDBSCAN", n_samples |-> n_samples,
                 params |-> params, tape |-> tape, data |-> data,
                 arcs |-> generateMoonsArcs(n_samples),
                 out |-> runDBSCAN(data, params, "Moons", tape,
                                   generateDatasetDraws("Moons", n_samples))]
    /\ UNCHANGED appVars

NextMoons ==
    /\ fn = NoCall
    /\ \/ \E n_samples \in 0..MaxN, k \in 1..MaxK, tape \in Tapes :
              CallMoonsSpectral(n_samples, [n_clusters |-> k], tape)
       \/ \E n_samples \in 0..MaxN, eps \in {Scale \div 2, 2 * Scale}, tape \in Tapes :
              CallMoonsDBSCAN(n_samples, [eps |-> eps], tape)

SpecMoons == InitPure /\ [][NextMoons]_vars

----------------------------------------------------------------------------
(* ControlPanel: its events, one action per handler.                       *)

getHintForDataset(datasetType) ==
    CASE datasetType \in {"Moons", "Circles"} -> "Tests how algorithms handle non-convex shapes."
      [] datasetType = "Blobs" -> "Ideal for standard, distance-based clustering."
      [] OTHER -> ""

\* parseInt(v, 10): leading white space, a sign, then the longest run of
\* digits; NaN when there is no digit
parseInt(v) ==
    LET keep == {i \in 1..Len(v) : v[i] \notin Whitespace \cup {"\n"}}
        start == IF keep = {} THEN Len(v) + 1
                 ELSE CHOOSE i \in keep : \A j \in keep : i <= j
        t == SubSeq(v, start, Len(v))
        signed == Len(t) >= 1 /\ t[1] \in {"-", "+"}
        i0 == IF signed THEN 2 ELSE 1
        i1 == DigitsEnd(t, i0)
        magnitude == DigitsValue(t, i0, i1)
    IN  IF i1 = i0 THEN NaN
        ELSE IF signed /\ t[1] = "-" THEN 0 - magnitude ELSE magnitude

\* the mount effect: setDatasetHint(getHintForDataset(DatasetType.Moons))
ControlPanelMount ==
    /\ ~panel.mounted
    /\ panel' = [panel EXCEPT !.mounted = TRUE,
                              !.datasetHint = getHintForDataset("Moons")]
    /\ UNCHANGED << hookVars, fn >>

\* files is the FileList of the input: empty when the dialog was cancelled
handleFileChange(files) ==
    /\ panel.mounted
    /\ panel' = IF Len(files) > 0
                THEN [panel EXCEPT !.selectedFile = files[1],
                                   !.datasetType = "Custom",
                                   !.datasetHint = ""]
                ELSE panel
    /\ UNCHANGED << hookVars, fn >>

\* every dataset change clears the file, Custom included
ClearsFile_Never(newType) == FALSE

\* if (newType !== DatasetType.Custom)
ClearsFile(newType) == newType # "Custom"

handleDatasetChange(newType) ==
    /\ panel.mounted
    \* a change event: the option picked is not the one shown
    /\ newType # panel.datasetType
    /\ LET newClusters == IF newType = "Blobs" THEN 3 ELSE 2
           prev == panel.params
       IN  panel' = [panel EXCEPT
                !.datasetType = newType,
                !.datasetHint = getHintForDataset(newType),
                !.selectedFile = IF ClearsFile(newType) THEN NoFile ELSE @,
                !.params = [prev EXCEPT
                    !.spectral = [n_clusters |-> newClusters],
                    !.kmeans = [n_clusters |-> newClusters],
                    !.agglomerative = [prev.agglomerative EXCEPT
                                          !.n_clusters = newClusters]]]
    /\ UNCHANGED << hookVars, fn >>

\* the checkbox is rendered only while a file is selected
DropLastColumnChange(checked) ==
    /\ panel.mounted
    /\ ~panel.selectedFile.null
    /\ panel' = [panel EXCEPT !.dropLastColumn = checked]
    /\ UNCHANGED << hookVars, fn >>

\* every number is let through
KRejected_Never(val) == FALSE

\* if (isNaN(val) || val < 2) return;
KRejected(val) == val = NaN \/ val < 2

\* the body of the Clusters (K) onChange after const val = parseInt(...)
setClusters(val) ==
    /\ panel.mounted
    /\ LET prev == panel.params
       IN  panel' = IF KRejected(val) THEN panel
                    ELSE [panel EXCEPT !.params = [prev EXCEPT
                            !.spectral = [n_clusters |-> val],
                            !.kmeans = [n_clusters |-> val],
                            !.agglomerative = [prev.agglomerative EXCEPT
                                                  !.n_clusters = val]]]
    /\ UNCHANGED << hookVars, fn >>

\* onChange of the Clusters (K) input, value the text of the input
ClustersChange(value) == setClusters(parseInt(value))

\* onChange of the Agglo. Linkage select
LinkageChange(val) ==
    /\ panel.mounted
    /\ val # panel.params.agglomerative.linkage
    /\ panel' = [panel EXCEPT !.params.agglomerative.linkage = val]
    /\ UNCHANGED << hookVars, fn >>

\* onChange of the DBSCAN Epsilon input: eps: parseFloat(e.target.value)
EpsChange(value) ==
    /\ panel.mounted
    /\ panel' = [panel EXCEPT !.params.dbscan = [eps |-> parseFloat(value)]]
    /\ UNCHANGED << hookVars, fn >>

\* the Analyze button (disabled={isLoading}); the call made is kept in fn
AnalyzeButtonClick ==
    /\ panel.mounted
    /\ ~isLoading
    /\ fn' = [op |-> "onAnalyze", datasetType |-> panel.datasetType,
              file |-> panel.selectedFile, params |-> panel.params,
              dropLastColumn |-> panel.dropLastColumn]
    /\ UNCHANGED << hookVars, panel >>

\* the options of the dataset select that are not disabled
SelectableTypes == {"Moons", "Blobs", "Circles"}

\* the digit that writes k
DigitText(k) == CHOOSE c \in Digits : DigitVal(c) = k

\* texts of the Clusters (K) input
KTexts ==
    {<< >>, << "x" >>, << "-", "3" >>, << "0" >>, << "1" >>,
     << "2", ".", "5" >>, << "1", "2" >>}
    \cup {<< DigitText(k) >> : k \in 2..MaxK}

\* texts of the DBSCAN Epsilon input
EpsTexts == {<< >>, << "0", ".", "5" >>, << "2" >>}

NextPanel ==
    \/ ControlPanelMount
    \/ \E files \in {<< >>} \cup {<< f >> : f \in Files} : handleFileChange(files)
    \/ \E newType \in SelectableTypes : handleDatasetChange(newType)
    \/ \E checked \in BOOLEAN : DropLastColumnChange(checked)
    \/ \E value \in KTexts : ClustersChange(value)
    \/ \E val \in Linkages : LinkageChange(val)
    \/ \E value \in EpsTexts : EpsChange(value)
    \/ AnalyzeButtonClick

SpecPanel == InitPure /\ [][NextPanel]_vars

----------------------------------------------------------------------------
(* The four mock operations on objects: a heap H holds the point objects   *)
(* (H.pts, a reference is an index) and the arrays (H.arrs, sequences of   *)
(* references).  Each operation returns the heap it leaves; the array it   *)
(* returns is the last one of that heap.  A point without a cluster field  *)
(* has cluster Undefined.                                                  *)

\* the spread takes the existing object instead of creating one
NewObject_Same(fresh, old) == old

\* { ...p, cluster }: a new object
NewObject(fresh, old) == fresh

\* a.map((p, j) => ({ ...p, cluster: clusters[j] }))
hMap(H, a, clusters) ==
    LET refs == H.arrs[a]
        base == Len(H.pts)
        out == [j \in 1..Len(refs) |-> NewObject(base + j, refs[j])]
        written(i) == {j \in 1..Len(refs) : out[j] = i}
        last(js) == CHOOSE j \in js : \A g \in js : g <= j
    IN  [pts |-> [i \in 1..(base + Len(refs)) |->
                    IF written(i) # {}
                    THEN LET j == last(written(i))
                         IN  [x |-> H.pts[refs[j]].x, y |-> H.pts[refs[j]].y,
                              cluster |-> clusters[j]]
                    ELSE IF i <= base THEN H.pts[i]
                    ELSE H.pts[refs[i - base]]],
         arrs |-> Append(H.arrs, out)]

\* [...data].sort((a, b) => a.x - b.x): a new array of the same objects
hSortedCopy(H, a) ==
    LET keyed == [j \in 1..Len(H.arrs[a]) |->
                     [x |-> H.pts[H.arrs[a][j]].x, ref |-> H.arrs[a][j]]]
        sorted == SortByX(keyed)
    IN  [H EXCEPT !.arrs = Append(H.arrs, [j \in 1..Len(sorted) |-> sorted[j].ref])]

\* the coordinates of the points of array a
hValues(H, a) ==
    [j \in 1..Len(H.arrs[a]) |-> [x |-> H.pts[H.arrs[a][j]].x, y |-> H.pts[H.arrs[a][j]].y]]

\* clusteredData[randomIndex].cluster = -1, noiseCount times, on array a
RECURSIVE hMarkNoise(_, _, _, _, _)
hMarkNoise(H, a, noiseCount, tape, off) ==
    IF noiseCount <= 0 THEN H
    ELSE LET randomIndex == RandomIndex(Rnd(tape, off), Len(H.arrs[a]))
         IN  hMarkNoise([H EXCEPT !.pts[H.arrs[a][randomIndex]].cluster = -1],
                        a, noiseCount - 1, tape, off + 1)

\* the four calls of runAnalysis on the array a of heap H: the heaps left by
\* each call and the arrays they return
hResults(H, a, params, datasetType, tape, off) ==
    LET data == hValues(H, a)
        labels(points) == [j \in 1..Len(points) |-> points[j].cluster]
        \* [] is returned for an empty dataset: a new, empty array
        xSplit(G, k) ==
            IF Len(data) = 0 \/ k <= 0 THEN [G EXCEPT !.arrs = Append(G.arrs, << >>)]
            ELSE LET S == hSortedCopy(G, a)
                 IN  hMap(S, Len(S.arrs), labels(assignClustersByXSplit(data, k)))
        centroids(G, k, o) ==
            IF Len(data) = 0 \/ k <= 0 THEN [G EXCEPT !.arrs = Append(G.arrs, << >>)]
            ELSE hMap(G, a, labels(assignClustersByCentroids(data, k, tape, o)))
        shaped(G) ==
            IF datasetType = "Moons" THEN hMap(G, a, labels(HalfIndexSplit(data)))
            ELSE hMap(G, a, labels(RadiusThresholdSplit(data)))
        o1 == off
        o2 == o1 + runSpectralClusteringDraws(data, params.spectral, datasetType)
        o3 == o2 + runKMeansDraws(data, params.kmeans, datasetType)
        o4 == o3 + runAgglomerativeClusteringDraws(data, params.agglomerative, datasetType)
        H1 == IF datasetType \in {"Moons", "Circles"} THEN shaped(H)
              ELSE centroids(H, params.spectral.n_clusters, o1)
        H2 == IF datasetType \in {"Moons", "Circles"}
              THEN xSplit(H1, params.kmeans.n_clusters)
              ELSE centroids(H1, params.kmeans.n_clusters, o2)
        H3 == IF datasetType \in {"Moons", "Circles"}
              THEN xSplit(H2, params.agglomerative.n_clusters)
              ELSE centroids(H2, params.agglomerative.n_clusters, o3)
        H4 == IF datasetType \in {"Moons", "Circles"} THEN shaped(H3)
              ELSE LET G == centroids(H3, DBSCANClusters, o4)
                   IN  hMarkNoise(G, Len(G.arrs), NoiseCount(Len(data)), tape,
                                  o4 + assignClustersByCentroidsDraws(data, DBSCANClusters))
    IN  [heaps |-> << H, H1, H2, H3, H4 >>,
         outs |-> << Len(H1.arrs), Len(H2.arrs), Len(H3.arrs), Len(H4.arrs) >>]

\* currentData as one array of point objects without a cluster field
CallResults(data, params, datasetType, tape) ==
    /\ LET H == [pts |-> [j \in 1..Len(data) |->
                             [x |-> data[j].x, y |-> data[j].y, cluster |-> Undefined]],
                 arrs |-> << [j \in 1..Len(data) |-> j] >>]
       IN  \E r \in {hResults(H, 1, params, datasetType, tape, 0)} :
              fn' = [op |-> "results", data |-> data, params |-> params,
                     datasetType |-> datasetType, tape |-> tape,
                     heaps |-> r.heaps, outs |-> r.outs]
    /\ UNCHANGED appVars

NextHeap ==
    /\ fn = NoCall
    /\ \E data \in PointSeqs \cup {LongData(n) : n \in LongSizes},
          params \in ParamBundles, datasetType \in DatasetTypes, tape \in RunTapes :
           CallResults(data, params, datasetType, tape)

SpecHeap == InitPure /\ [][NextHeap]_vars

\* The app under the assumption that every awaited operation completes and
\* that a continuation that can run does run.
FairSpec ==
    /\ Spec
    /\ \A r \in RunIds :
        /\ WF_vars(runAnalysisAcquire(r))
        /\ WF_vars(\E event \in {"load", "error"} : FileReadCompletes(r, event))
        /\ WF_vars(\E remote \in RemoteOutcomes : AnalysisSettles(r, remote))

----------------------------------------------------------------------------
(* Properties *)

\* the run started last
Last == Cardinality(Started)

AlgorithmOrder ==
    << "Spectral Clustering", "K-Means", "Agglomerative Clustering", "DBSCAN" >>

\* the greatest element of a non-empty set of numbers
Greatest(S) == CHOOSE m \in S : \A v \in S : v <= m

\* C1: a run that acquired a non-empty point set has stored exactly four
\* results, labelled Spectral Clustering, K-Means, Agglomerative Clustering,
\* DBSCAN in this order, and a maxima record whose fields are the greatest
\* values of those fields over the four results.
C1_FourResultsAndMaxima ==
    \A r \in RunIds :
        (r = Last /\ runs[r].points > 0 /\ runs[r].pc \in {"awaitAnalysis", "done"})
        => /\ Len(clusterResults) = 4
           /\ [i \in 1..4 |-> clusterResults[i].algorithm] = AlgorithmOrder
           /\ maxMetrics # NullMetrics
           /\ maxMetrics.silhouette =
                 Greatest({clusterResults[i].metrics.silhouette : i \in 1..4})
           /\ maxMetrics.calinskiHarabasz =
                 Greatest({clusterResults[i].metrics.calinskiHarabasz : i \in 1..4})
           /\ maxMetrics.daviesBouldin =
                 Greatest({clusterResults[i].metrics.daviesBouldin : i \in 1..4})

\* a run on an uploaded file has stored its results, and the first result
\* does not hold the greatest silhouette
C1_Witness ==
    \E r \in RunIds :
        /\ runs[r].pc = "awaitAnalysis"
        /\ runs[r].datasetType = "Custom"
        /\ runs[r].points > 0
        /\ Len(clusterResults) = 4
        /\ clusterResults[1].metrics.silhouette < maxMetrics.silhouette

\* C2: right after runAnalysis has started, before the dataset is acquired,
\* isLoading is true, error is null, the analysis text is empty, the result
\* list is empty and the maxima record is null.
C2_LoadingClears ==
    \A r \in RunIds :
        runs[r].pc = "begun"
        => /\ isLoading
           /\ error = Null
           /\ geminiAnalysis = << >>
           /\ clusterResults = << >>
           /\ maxMetrics = NullMetrics

\* a second run has just started, after a run that stored a dataset
C2_Witness ==
    /\ runs[2].pc = "begun"
    /\ runs[1].pc = "done"
    /\ dataset # << >>

\* C3: a run whose dataset acquisition yields zero points ends with the fixed
\* load error, isLoading false, no results, no maxima, no analysis text, and
\* has executed no mock clustering operation and no commentary call.
C3_LoadFailure ==
    \A r \in RunIds :
        (runs[r].pc = "done" /\ runs[r].points = 0)
        => /\ error = ErrLoad
           /\ ~isLoading
           /\ clusterResults = << >>
           /\ maxMetrics = NullMetrics
           /\ geminiAnalysis = << >>
           /\ runs[r].mocks = << >>
           /\ runs[r].analyzeCalls = 0
           /\ runs[r].outcome = "loadFailure"

\* a run has ended on a dataset of zero points
C3_Witness ==
    \E r \in RunIds : runs[r].pc = "done" /\ runs[r].points = 0

\* C4: a run whose parseCSV promise rejects ends with no mock clustering
\* operation and no commentary call executed, isLoading false, the result
\* list, the maxima and the analysis text cleared, and error set: to the
\* message of the parse error, or to the fallback message when the reader
\* itself failed.
C4_ParseFailure ==
    \A r \in RunIds :
        (runs[r].pc = "done" /\ runs[r].outcome \in {"parseFailure", "readFailure"})
        => /\ runs[r].mocks = << >>
           /\ runs[r].analyzeCalls = 0
           /\ ~isLoading
           /\ clusterResults = << >>
           /\ maxMetrics = NullMetrics
           /\ geminiAnalysis = << >>
           /\ (runs[r].outcome = "parseFailure"
               => /\ runs[r].caught.isError
                  /\ error = runs[r].caught.message
                  /\ error \in {ErrHeader, ErrNoRows} \cup {ErrFeatures(n) : n \in 0..1})
           /\ (runs[r].outcome = "readFailure" => error = ErrUnknownRun)

\* C4 as stated: whenever parseCSV rejects, the run ends with error equal to
\* the message of the rejection.
C4_ErrorIsRejectionMessage ==
    \A r \in RunIds :
        (runs[r].pc = "done" /\ runs[r].outcome \in {"parseFailure", "readFailure"})
        => /\ runs[r].caught.isError
           /\ error = runs[r].caught.message

\* a run has ended on a rejected parse
C4_Witness ==
    \E r \in RunIds :
        /\ runs[r].pc = "done"
        /\ runs[r].outcome = "parseFailure"
        /\ error = ErrFeatures(1)

\* the strings analyzeClusteringResults returns for a missing credential or
\* a failed remote call
ErrorShaped(text) ==
    \/ text = ErrNoKey
    \/ text = ErrUnknown
    \/ StartsWith(text, ErrRemote(<< >>))
    \/ StartsWith(text, ErrParsing(<< >>))

\* C5: when the commentary returns an error-shaped string, the step that
\* resumes the run stores that string as the analysis text, leaves error
\* null, keeps the four results and the maxima stored before the call, ends
\* the run with isLoading false, and the run has called the commentary once.
C5_CommentaryFailureKeepsRun ==
    [][\A r \in RunIds :
          (/\ runs[r].pc = "awaitAnalysis"
           /\ runs'[r].pc = "done"
           /\ runs'[r].settlement.settled = "resolved"
           /\ ErrorShaped(runs'[r].settlement.value))
          => /\ geminiAnalysis' = runs'[r].settlement.value
             /\ error' = Null
             /\ ~isLoading'
             /\ Len(clusterResults) = 4
             /\ clusterResults' = clusterResults
             /\ maxMetrics # NullMetrics
             /\ maxMetrics' = maxMetrics
             /\ runs'[r].analyzeCalls = 1
             /\ runs'[r].outcome = "loaded"]_vars

\* a run has ended Loaded with the missing-credential string as its analysis
C5_Witness ==
    \E r \in RunIds :
        /\ runs[r].pc = "done"
        /\ runs[r].outcome = "loaded"
        /\ geminiAnalysis = ErrNoKey
        /\ error = Null
        /\ Len(clusterResults) = 4

\* the failures of the commentary: no credential, a constructor that throws,
\* a remote call or a decoding of its response that throws
CommentaryFailed(run) ==
    \/ ~API_KEY
    \/ run.client = "constructorThrows"
    \/ run.remote \in {"noGenerationMethod", "throwsError", "throwsOther", "textThrows"}

\* C6: analyzeClusteringResults never rejects, and on every failure the
\* string it returns begins with "Error:" or with "An error occurred".
C6_CommentaryNeverRaises ==
    \A r \in RunIds :
        (runs[r].pc = "done" /\ runs[r].settlement.settled # "none")
        => /\ runs[r].settlement.settled = "resolved"
           /\ (CommentaryFailed(runs[r])
               => \/ StartsWith(runs[r].settlement.value, << "Error", ":" >>)
                  \/ StartsWith(runs[r].settlement.value, << "An ", "error occurred" >>))

\* C7: at most one runAnalysis invocation is in flight, and a run has ended
\* when a later run has started.
C7_OneRunInFlight ==
    /\ Cardinality(InFlight) <= 1
    /\ \A r, q \in RunIds :
          (r < q /\ runs[q].pc # "notStarted") => runs[r].pc = "done"

\* a second run waits for the commentary while the button is disabled
C7_Witness ==
    /\ runs[1].pc = "done"
    /\ runs[2].pc = "awaitAnalysis"
    /\ ButtonDisabled

\* C8: every started run eventually ends, with isLoading false and either an
\* error (Failed) or no error and four results (Loaded), not both.
C8_EveryRunLeavesLoading ==
    \A r \in RunIds :
        (runs[r].pc = "begun")
        ~> (/\ runs[r].pc = "done"
            /\ ~isLoading
            /\ ((error # Null) # (error = Null /\ Len(clusterResults) = 4)))

\* the second run has ended Failed on a rejected parse
C8_Witness ==
    /\ runs[2].pc = "done"
    /\ runs[2].outcome = "parseFailure"
    /\ ~isLoading
    /\ error # Null

\* C9: generateDataset(type, n) returns exactly n points for Moons, Blobs
\* and Circles and every n >= 2.
C9_GeneratorCount ==
    (fn.op = "generateDataset" /\ fn.type \in {"Moons", "Blobs", "Circles"}
        /\ fn.n_samples >= 2)
    => Len(fn.out) = fn.n_samples

\* Moons were generated for an odd sample count
C9_Witness ==
    /\ fn.op = "generateDataset"
    /\ fn.type = "Moons"
    /\ fn.n_samples = 5
    /\ Len(fn.out) = 5

\* C10: every point generateDataset(type, n) returns for Moons, Blobs and
\* Circles and n >= 2 has finite, non-NaN x and y.
C10_GeneratorFinite ==
    (fn.op = "generateDataset" /\ fn.type \in {"Moons", "Blobs", "Circles"}
        /\ fn.n_samples >= 2)
    => \A i \in 1..Len(fn.out) : IsFinite(fn.out[i].x) /\ IsFinite(fn.out[i].y)

\* the lines of a text, and those of them that are not blank
LinesOf(text) == Split(text, "\n")
IsBlank(line) == \A i \in 1..Len(line) : line[i] \in Whitespace
NonBlankLinesOf(text) ==
    LET Kept(line) == ~IsBlank(line)
    IN  SelectSeq(LinesOf(text), Kept)

\* C11: parseCSV fails with the header error whenever the text has fewer than
\* two lines that are not blank, for either value of dropLastColumn, and
\* returns no points then.
C11_HeaderAndOneRow ==
    (fn.op = "parseCSV" /\ Len(NonBlankLinesOf(fn.text)) < 2)
    => /\ ~fn.out.ok
       /\ fn.out.error = NewError(ErrHeader)

\* a text of a header between blank lines was parsed and failed
C11_Witness ==
    /\ fn.op = "parseCSV"
    /\ Len(LinesOf(fn.text)) = 3
    /\ Len(NonBlankLinesOf(fn.text)) = 1
    /\ fn.dropLastColumn
    /\ ~fn.out.ok

\* the data rows of a text: its non-blank lines after the header
DataLinesOf(text) ==
    LET lines == NonBlankLinesOf(text)
    IN  IF lines = << >> THEN << >> ELSE Tail(lines)

FieldsOf(line) == Split(line, ",")

\* the fields of a data row that the width check and the points are made of
KeptFieldsOf(line, dropLastColumn) ==
    LET fields == FieldsOf(line)
    IN  IF dropLastColumn THEN SubSeq(fields, 1, Len(fields) - 1) ELSE fields

\* a field parseFloat finds no number at the start of
IsNotNumeric(field) == parseFloat(Trim(field)) = NaN

HasNonNumeric(fields) == \E i \in 1..Len(fields) : IsNotNumeric(fields[i])

\* C12: when there is a data row and every data row has, among the fields
\* kept after the optional drop of the last field, a field that is not
\* numeric, parseCSV fails with the no-numeric-rows error, for both values of
\* dropLastColumn.
C12_NoNumericRows ==
    fn.op = "parseCSV"
    => LET rows == DataLinesOf(fn.text)
       IN  (/\ rows # << >>
            /\ \A i \in 1..Len(rows) :
                  HasNonNumeric(KeptFieldsOf(rows[i], fn.dropLastColumn)))
           => /\ ~fn.out.ok
              /\ fn.out.error = NewError(ErrNoRows)

\* C12 as stated: a non-numeric field anywhere in every data row makes
\* parseCSV fail with the no-numeric-rows error, whatever dropLastColumn is.
C12_AnyFieldNonNumeric ==
    fn.op = "parseCSV"
    => LET rows == DataLinesOf(fn.text)
       IN  (/\ rows # << >>
            /\ \A i \in 1..Len(rows) : HasNonNumeric(FieldsOf(rows[i])))
           => /\ ~fn.out.ok
              /\ fn.out.error = NewError(ErrNoRows)

\* two data rows, each with a non-numeric field that is not the last one,
\* were parsed with the last column dropped, and the parse failed
C12_Witness ==
    /\ fn.op = "parseCSV"
    /\ fn.dropLastColumn
    /\ Len(DataLinesOf(fn.text)) = 2
    /\ \A i \in 1..2 : HasNonNumeric(KeptFieldsOf(DataLinesOf(fn.text)[i], TRUE))
    /\ fn.out = [ok |-> FALSE, error |-> NewError(ErrNoRows)]

\* the data rows whose kept fields are all numeric
NumericLinesOf(text, dropLastColumn) ==
    LET Numeric(line) == ~HasNonNumeric(KeptFieldsOf(line, dropLastColumn))
    IN  SelectSeq(DataLinesOf(text), Numeric)

\* C13: with dropLastColumn = true the width that is checked is the width of
\* the first numeric data row without its last field: below 2, parseCSV
\* fails with the error that reports that width; from 2 on (rows of three
\* fields), it succeeds.
C13_DropThenWidth ==
    (fn.op = "parseCSV" /\ fn.dropLastColumn)
    => LET rows == NumericLinesOf(fn.text, TRUE)
           width == Len(FieldsOf(rows[1])) - 1
       IN  rows # << >>
           => IF width < 2
              THEN fn.out = [ok |-> FALSE, error |-> NewError(ErrFeatures(width))]
              ELSE fn.out.ok

\* rows of two fields were parsed with the last column dropped, and the
\* parse failed reporting one feature
C13_Witness ==
    /\ fn.op = "parseCSV"
    /\ fn.dropLastColumn
    /\ Len(DataLinesOf(fn.text)) = 2
    /\ \A i \in 1..2 : Len(FieldsOf(DataLinesOf(fn.text)[i])) = 2
    /\ fn.out = [ok |-> FALSE, error |-> NewError(ErrFeatures(1))]

\* the number read from the n-th kept field of a line, Undefined when the
\* line has no such field
FieldValue(line, dropLastColumn, n) ==
    LET fields == KeptFieldsOf(line, dropLastColumn)
    IN  IF n <= Len(fields) THEN parseFloat(Trim(fields[n])) ELSE Undefined

\* C14: on success parseCSV returns one point per data row whose kept fields
\* are all numeric, in the order of those rows, with x the first and y the
\* second kept field; the header, the rows with a non-numeric kept field and
\* the fields after the second give nothing.
C14_PointsOfRows ==
    (fn.op = "parseCSV" /\ fn.out.ok)
    => LET rows == NumericLinesOf(fn.text, fn.dropLastColumn)
       IN  fn.out.points =
               [i \in 1..Len(rows) |->
                   [x |-> FieldValue(rows[i], fn.dropLastColumn, 1),
                    y |-> FieldValue(rows[i], fn.dropLastColumn, 2)]]

\* a header and two different numeric rows were parsed with no drop: two
\* points, the first one (1, 2)
C14_Witness ==
    /\ fn.op = "parseCSV"
    /\ ~fn.dropLastColumn
    /\ fn.out.ok
    /\ Len(fn.out.points) = 2
    /\ fn.out.points[1] = [x |-> Scale, y |-> 2 * Scale]
    /\ fn.out.points[2] = [x |-> (7 * Scale) \div 2, y |-> 0 - 4 * Scale]

\* C15: for a non-empty point set and k >= 1 the positional split returns
\* every point with a cluster in [0, k), the points in ascending x order and
\* their cluster labels non-decreasing in that order.
C15_PositionalSplit ==
    (fn.op = "assignClustersByXSplit" /\ Len(fn.data) >= 1 /\ fn.k >= 1)
    => /\ Len(fn.out) = Len(fn.data)
       /\ \A i \in 1..Len(fn.out) : fn.out[i].cluster \in 0..(fn.k - 1)
       /\ \A i \in 1..(Len(fn.out) - 1) :
             /\ fn.out[i].x <= fn.out[i + 1].x
             /\ fn.out[i].cluster <= fn.out[i + 1].cluster

\* three points given in descending x order were split in two clusters
C15_Witness ==
    /\ fn.op = "assignClustersByXSplit"
    /\ fn.k = 2
    /\ Len(fn.data) = 3
    /\ fn.data[1].x > fn.data[2].x
    /\ fn.data[2].x > fn.data[3].x
    /\ fn.out[1].cluster = 0
    /\ fn.out[3].cluster = 1

\* the square of the Euclidean distance of two points with finite coordinates
SqDist(p, m) == (p.x - m.x) * (p.x - m.x) + (p.y - m.y) * (p.y - m.y)

\* the lowest 0-based index of a centroid at minimal distance from p
NearestIndex(p, means) ==
    CHOOSE c \in 0..(Len(means) - 1) :
        /\ \A d \in 0..(Len(means) - 1) : SqDist(p, means[c + 1]) <= SqDist(p, means[d + 1])
        /\ \A d \in 0..(c - 1) : SqDist(p, means[d + 1]) > SqDist(p, means[c + 1])

\* C16: for a non-empty point set and k >= 1, the k pseudo-centroids are
\* points of the input, the output holds every input point, in place, and
\* each point's cluster is the lowest index among the pseudo-centroids at
\* minimal Euclidean distance from it.
C16_NearestCentroid ==
    (fn.op = "assignClustersByCentroids" /\ Len(fn.data) >= 1 /\ fn.k >= 1)
    => /\ Len(fn.means) = fn.k
       /\ \A j \in 1..fn.k : \E i \in 1..Len(fn.data) : fn.means[j] = fn.data[i]
       /\ Len(fn.out) = Len(fn.data)
       /\ \A i \in 1..Len(fn.data) :
             fn.out[i] = [x |-> fn.data[i].x, y |-> fn.data[i].y,
                          cluster |-> NearestIndex(fn.data[i], fn.means)]

\* a point at the same distance from two different pseudo-centroids, none
\* nearer, got the index of the first of them
C16_Witness ==
    /\ fn.op = "assignClustersByCentroids"
    /\ fn.k = 2
    /\ Len(fn.data) >= 1
    /\ fn.means[1] # fn.means[2]
    /\ \E i \in 1..Len(fn.data) :
          /\ SqDist(fn.data[i], fn.means[1]) = SqDist(fn.data[i], fn.means[2])
          /\ fn.out[i].cluster = 0

\* C17: runDBSCAN on Blobs or Custom data of n points returns the n points,
\* at most floor(0.05 * n) of them labelled -1 (none when n < 20), and every
\* other one with the index in [0, 3) of its nearest pseudo-centroid among
\* the three drawn, whatever eps is.
C17_DBSCANNoise ==
    (fn.op = "runDBSCAN" /\ fn.datasetType \in {"Blobs", "Custom"})
    => LET n == Len(fn.data)
           out == fn.out.data
           noise == {i \in 1..Len(out) : out[i].cluster = -1}
       IN  /\ Len(out) = n
           /\ Cardinality(noise) <= (5 * n) \div 100
           /\ (n < 20 => noise = {})
           /\ \A i \in 1..n :
                 /\ out[i].x = fn.data[i].x
                 /\ out[i].y = fn.data[i].y
                 /\ Len(fn.means) = 3
                 /\ out[i].cluster \in {-1, NearestIndex(fn.data[i], fn.means)}

\* on forty points the two noise draws fell on the same position: one point
\* is labelled -1
C17_Witness ==
    /\ fn.op = "runDBSCAN"
    /\ fn.datasetType = "Custom"
    /\ Len(fn.data) = 40
    /\ Cardinality({i \in 1..40 : fn.out.data[i].cluster = -1}) = 1

----------------------------------------------------------------------------
\* the labels of a result
LabelsOf(out) == {out.data[i].cluster : i \in 1..Len(out.data)}

CentroidOps == {"runSpectralClustering", "runKMeans", "runAgglomerativeClustering"}

\* C18 (as stated): every result of runSpectralClustering, runKMeans or
\* runAgglomerativeClustering with n_clusters = k >= 1, on every dataset
\* type, has all its labels in [0, k); -1 appears in none of them, nor in a
\* runDBSCAN result on Moons or Circles.
C18_LabelsBelowK ==
    /\ fn.op \in CentroidOps
          => LabelsOf(fn.out) \subseteq 0..(fn.params.n_clusters - 1)
    /\ (fn.op = "runDBSCAN" /\ fn.datasetType \in {"Moons", "Circles"})
          => -1 \notin LabelsOf(fn.out)

\* C18 (amended): runKMeans and runAgglomerativeClustering on every dataset
\* type, and runSpectralClustering on Blobs and Custom, label in [0, k);
\* runSpectralClustering and runDBSCAN on Moons and Circles label in {0, 1}
\* whatever k is, which is inside [0, k) exactly when k >= 2; so -1 appears
\* only in runDBSCAN results on Blobs or Custom.
C18_LabelsBelowKOrTwo ==
    /\ (fn.op \in CentroidOps
            /\ (fn.op # "runSpectralClustering" \/ fn.datasetType \in {"Blobs", "Custom"}))
          => LabelsOf(fn.out) \subseteq 0..(fn.params.n_clusters - 1)
    /\ (fn.op \in {"runSpectralClustering", "runDBSCAN"}
            /\ fn.datasetType \in {"Moons", "Circles"})
          => LabelsOf(fn.out) \subseteq {0, 1}
    /\ (fn.op \in CentroidOps /\ fn.params.n_clusters >= 2)
          => LabelsOf(fn.out) \subseteq 0..(fn.params.n_clusters - 1)
    /\ (fn.op \in CentroidOps \cup {"runDBSCAN"} /\ -1 \in LabelsOf(fn.out))
          => (fn.op = "runDBSCAN" /\ fn.datasetType \in {"Blobs", "Custom"})

\* runSpectralClustering on Moons with k = 1 labels the second half 1
C18_Witness ==
    /\ fn.op = "runSpectralClustering"
    /\ fn.datasetType = "Moons"
    /\ fn.params.n_clusters = 1
    /\ Len(fn.data) = MaxPoints
    /\ LabelsOf(fn.out) = {0, 1}

----------------------------------------------------------------------------
\* the square of the distance of a point from the origin, times Scale^2
SqRadius(p) == p.x * p.x + p.y * p.y

\* 0.75^2, times Scale^2
SqThreshold == ((3 * Scale) \div 4) * ((3 * Scale) \div 4)

\* C19: on Circles data runSpectralClustering and runDBSCAN keep the input
\* order and label a point 0 when its distance from the origin is strictly
\* greater than 0.75 and 1 otherwise (1 at exactly 0.75), whatever
\* n_clusters and eps are, so both return the same labeling of an input.
C19_CirclesRadiusSplit ==
    (fn.op \in {"runSpectralClustering", "runDBSCAN"} /\ fn.datasetType = "Circles")
    => LET out == fn.out.data
       IN  /\ Len(out) = Len(fn.data)
           /\ \A i \in 1..Len(out) :
                 /\ out[i].x = fn.data[i].x
                 /\ out[i].y = fn.data[i].y
                 /\ out[i].cluster = IF SqRadius(fn.data[i]) > SqThreshold THEN 0 ELSE 1
           /\ \A k \in 1..MaxK :
                 out = runSpectralClustering(fn.data, [n_clusters |-> k],
                                             "Circles", fn.tape, 0).data
           /\ \A eps \in {Scale \div 2, 2 * Scale} :
                 out = runDBSCAN(fn.data, [eps |-> eps], "Circles", fn.tape, 0).data

\* a run on Circles with a point outside, one inside and one at the threshold
C19_Witness ==
    /\ fn.op = "runDBSCAN"
    /\ fn.datasetType = "Circles"
    /\ Len(fn.data) = 3
    /\ SqRadius(fn.data[1]) > SqThreshold
    /\ SqRadius(fn.data[2]) = SqThreshold
    /\ SqRadius(fn.data[3]) < SqThreshold
    /\ fn.out.data[1].cluster = 0
    /\ fn.out.data[2].cluster = 1
    /\ fn.out.data[3].cluster = 1

----------------------------------------------------------------------------
\* Noise moves a coordinate by at most 0.05, so a generated point lies on
\* the side of the 0.75 circle its radius before noise puts it on.
NearOuter(p) == IsFinite(p.x) /\ IsFinite(p.y) /\ SqRadius(p) > SqThreshold
NearInner(p) == IsFinite(p.x) /\ IsFinite(p.y) /\ SqRadius(p) < SqThreshold

\* both noise draws of point i (i = 0, 1, ...) are 0.5: the point is not moved
NoNoiseAt(tape, i) ==
    /\ Rnd(tape, 3 * i + 1) = Scale \div 2
    /\ Rnd(tape, 3 * i + 2) = Scale \div 2

\* C20 (as stated): the first half of the generated Circles points (the lower
\* indices) are the outer points, at radius 1.0 before noise, and the second
\* half are the inner points, at radius factor.
C20_OuterFirst ==
    (fn.op = "generateDataset" /\ fn.type = "Circles")
    => LET n == fn.n_samples
       IN  \A j \in 1..n :
              /\ j <= n \div 2 => NearOuter(fn.out[j])
              /\ j > n - n \div 2 => NearInner(fn.out[j])

\* C20 (amended): the points of index i < n / 2 (the first ceil(n / 2)) are
\* the inner points, at radius factor = 0.5 before noise, and the points of
\* index i >= n / 2 (the last floor(n / 2)) are the outer points, at radius 1.0.
C20_InnerFirst ==
    (fn.op = "generateDataset" /\ fn.type = "Circles")
    => LET n == fn.n_samples
       IN  /\ Len(fn.out) = n
           /\ \A j \in 1..n :
                 LET inner == j <= n - n \div 2
                     r == IF inner THEN CirclesFactor ELSE Scale
                 IN  /\ inner => NearInner(fn.out[j])
                     /\ ~inner => NearOuter(fn.out[j])
                     /\ NoNoiseAt(fn.tape, j - 1) => SqRadius(fn.out[j]) = r * r

\* MaxN points without noise: the first three at radius 0.5, the last two at 1.0
C20_Witness ==
    /\ fn.op = "generateDataset"
    /\ fn.type = "Circles"
    /\ fn.n_samples = MaxN
    /\ \A j \in 1..MaxN : NoNoiseAt(fn.tape, j - 1)
    /\ \A j \in 1..(MaxN - MaxN \div 2) : SqRadius(fn.out[j]) = CirclesFactor * CirclesFactor
    /\ \A j \in (MaxN - MaxN \div 2 + 1)..MaxN : SqRadius(fn.out[j]) = Scale * Scale

----------------------------------------------------------------------------
\* |d^2 - 1| for a point at distance d from (cx, cy) is within what noise of
\* half-width 0.08 on each coordinate allows: 0.887 <= d <= 1.113
NearUnitCircle(p, cx, cy) ==
    LET sq == (p.x - cx) * (p.x - cx) + (p.y - cy) * (p.y - cy)
    IN  /\ 100 * sq >= 78 * Scale * Scale
        /\ 100 * sq <= 124 * Scale * Scale

\* the upper half of the unit circle around the origin, up to noise
OnUpperArc(p) == NearUnitCircle(p, 0, 0) /\ p.y >= 0 - MoonsNoise

\* the lower half of the unit circle around (1, 0.5), up to noise
OnLowerArc(p) == NearUnitCircle(p, Scale, Scale \div 2) /\ p.y <= Scale \div 2 + MoonsNoise

\* C21: for every n >= 2, runSpectralClustering and runDBSCAN applied to the
\* unmodified output of generateDataset(Moons, n) label a point 0 exactly when
\* the generator produced it on the first (upper) arc and 1 exactly when it
\* produced it on the second (shifted, inverted) arc, odd n included.
C21_MoonsSplitFollowsArcs ==
    (fn.op \in {"Moons/runSpectralClustering", "Moons/runDBSCAN"} /\ fn.n_samples >= 2)
    => LET out == fn.out.data
       IN  /\ Len(out) = fn.n_samples
           /\ Len(fn.arcs) = fn.n_samples
           /\ \A j \in 1..Len(out) :
                 /\ out[j].x = fn.data[j].x
                 /\ out[j].y = fn.data[j].y
                 /\ out[j].cluster = 0 <=> fn.arcs[j] = "top"
                 /\ out[j].cluster = 1 <=> fn.arcs[j] = "bottom"
                 /\ (IsFinite(out[j].x) /\ IsFinite(out[j].y))
                       => /\ out[j].cluster = 0 <=> OnUpperArc(out[j])
                          /\ out[j].cluster = 1 <=> OnLowerArc(out[j])

\* an odd number of points: two on the upper arc, three on the lower one
C21_Witness ==
    /\ fn.op = "Moons/runDBSCAN"
    /\ fn.n_samples = 5
    /\ \A j \in 1..5 : IsFinite(fn.out.data[j].x) /\ IsFinite(fn.out.data[j].y)
    /\ \A j \in 1..2 : fn.out.data[j].cluster = 0 /\ OnUpperArc(fn.out.data[j])
    /\ \A j \in 3..5 : fn.out.data[j].cluster = 1 /\ OnLowerArc(fn.out.data[j])

----------------------------------------------------------------------------
\* C22: after any sequence of control-panel events the panel's datasetType
\* is Custom if and only if selectedFile is non-null, so every onAnalyze call
\* of the Analyze button passes Custom with a file and any other type with
\* null.
C22_CustomIffFile ==
    /\ panel.datasetType = "Custom" <=> ~panel.selectedFile.null
    /\ panel.selectedFile.null \/ panel.selectedFile \in Files
    /\ fn.op = "onAnalyze"
          => /\ fn.datasetType = "Custom" <=> ~fn.file.null
             /\ fn.file.null \/ fn.file \in Files

\* a file was selected, then another dataset, then a file again, and the
\* button was clicked
C22_Witness ==
    /\ fn.op = "onAnalyze"
    /\ fn.datasetType = "Custom"
    /\ fn.file = GoodFile
    /\ fn.params.kmeans.n_clusters = 3
    /\ panel.datasetType = "Circles"
    /\ panel.selectedFile = NoFile

----------------------------------------------------------------------------
\* the three cluster counts are one integer >= 2
KInSync ==
    LET k == panel.params.kmeans.n_clusters
    IN  /\ panel.params.spectral.n_clusters = k
        /\ panel.params.agglomerative.n_clusters = k
        /\ k \in Nat
        /\ IsFinite(k)
        /\ k >= 2

\* a step that changes the dataset to a type other than Custom: a dataset
\* change (a file selection changes it to Custom)
DatasetChangeResets ==
    (panel'.datasetType # panel.datasetType /\ panel'.datasetType # "Custom")
    => LET k == IF panel'.datasetType = "Blobs" THEN 3 ELSE 2
       IN  /\ panel'.params.spectral.n_clusters = k
           /\ panel'.params.kmeans.n_clusters = k
           /\ panel'.params.agglomerative.n_clusters = k
           /\ panel'.params.agglomerative.linkage = panel.params.agglomerative.linkage
           /\ panel'.params.dbscan = panel.params.dbscan

\* what parseInt makes of the texts of the Clusters (K) input
KValues == {parseInt(value) : value \in KTexts}

\* an edit of Clusters (K) whose text is not a number or is a number below 2
RejectedKEditKeepsParams ==
    \A val \in KValues :
        ((val = NaN \/ val < 2) /\ setClusters(val))
        => panel'.params = panel.params

\* an accepted edit sets the three counts and nothing else
AcceptedKEditSetsAll ==
    \A val \in KValues :
        (val # NaN /\ val >= 2 /\ setClusters(val))
        => /\ panel'.params.kmeans.n_clusters = val
           /\ panel'.params.agglomerative.linkage = panel.params.agglomerative.linkage
           /\ panel'.params.dbscan = panel.params.dbscan

\* C23: after any sequence of control-panel events spectral.n_clusters,
\* kmeans.n_clusters and agglomerative.n_clusters are equal and an integer
\* >= 2; a dataset change sets all three to 3 for Blobs and to 2 otherwise
\* and keeps linkage and eps; a K edit that is not a number or is below 2
\* leaves all parameters unchanged.
C23_ClustersInSync ==
    /\ []KInSync
    /\ [][DatasetChangeResets /\ RejectedKEditKeepsParams /\ AcceptedKEditSetsAll]_vars

\* linkage and eps were edited, K was set to 12, a file was selected, and
\* the dataset was then changed to Blobs
C23_Witness ==
    /\ panel.datasetType = "Blobs"
    /\ panel.params.kmeans.n_clusters = 3
    /\ panel.params.spectral.n_clusters = 3
    /\ panel.params.agglomerative = [n_clusters |-> 3, linkage |-> "average"]
    /\ panel.params.dbscan.eps = 2 * Scale
    /\ fn.op = "onAnalyze"
    /\ fn.datasetType = "Custom"
    /\ fn.params.kmeans.n_clusters = 12

----------------------------------------------------------------------------
\* the points of an array of a heap, cluster field included
PointsAt(H, a) == [j \in 1..Len(H.arrs[a]) |-> H.pts[H.arrs[a][j]]]

\* the references an array holds
RefsOf(H, a) == {H.arrs[a][j] : j \in 1..Len(H.arrs[a])}

\* C24: each of the four mock operations leaves the input point sequence
\* unchanged (same order, same coordinates, no cluster field on an input
\* point) and returns newly created point records, so within one run the -1
\* relabeling of runDBSCAN on Blobs or Custom changes no point of the dataset
\* and no point of the other three results.
C24_NoSharedPoints ==
    fn.op = "results"
    => LET H0 == fn.heaps[1]
           final == fn.heaps[5]
           values == Results(fn.data, fn.params, fn.datasetType, fn.tape, 0)
       IN  /\ \A i \in 2..5 :
                 \* the input array and the input objects, after each call
                 /\ fn.heaps[i].arrs[1] = H0.arrs[1]
                 /\ PointsAt(fn.heaps[i], 1) = PointsAt(H0, 1)
                 /\ \A j \in 1..Len(fn.data) :
                       PointsAt(fn.heaps[i], 1)[j]
                          = [x |-> fn.data[j].x, y |-> fn.data[j].y, cluster |-> Undefined]
           /\ \A i \in 1..4 :
                 \* result i is made of objects that did not exist before the call
                 /\ fn.outs[i] > Len(fn.heaps[i].arrs)
                 /\ \A r \in RefsOf(final, fn.outs[i]) : r > Len(fn.heaps[i].pts)
                 /\ Cardinality(RefsOf(final, fn.outs[i])) = Len(final.arrs[fn.outs[i]])
                 \* and is not changed by the later calls
                 /\ PointsAt(final, fn.outs[i]) = PointsAt(fn.heaps[i + 1], fn.outs[i])
                 /\ PointsAt(final, fn.outs[i]) = values[i].data
           /\ \A i, j \in 1..4 :
                 i # j => RefsOf(final, fn.outs[i]) \cap RefsOf(final, fn.outs[j]) = {}

\* a run on Custom data of 40 points in which runDBSCAN marked noise
C24_Witness ==
    /\ fn.op = "results"
    /\ fn.datasetType = "Custom"
    /\ Len(fn.data) = 40
    /\ \E j \in 1..40 :
          /\ PointsAt(fn.heaps[5], fn.outs[4])[j].cluster = -1
          /\ PointsAt(fn.heaps[5], fn.outs[1])[j].cluster >= 0
          /\ PointsAt(fn.heaps[5], 1)[j].cluster = Undefined

----------------------------------------------------------------------------
\* a coordinate that is a number: neither undefined nor NaN
IsNumber(v) == v # Undefined /\ v # NaN

\* C25: every point returned by a successful parseCSV has both x and y
\* defined as numbers, never undefined or NaN, whatever the field counts of
\* the rows are: rows shorter than the first numeric row and rows left empty
\* by the removal of the last field included.
C25_PointsDefined ==
    (fn.op = "parseCSV" /\ fn.out.ok)
    => \A i \in 1..Len(fn.out.points) :
          IsNumber(fn.out.points[i].x) /\ IsNumber(fn.out.points[i].y)

\* no coordinate of a parsed point is NaN
C25_NeverNaN ==
    (fn.op = "parseCSV" /\ fn.out.ok)
    => \A i \in 1..Len(fn.out.points) :
          fn.out.points[i].x # NaN /\ fn.out.points[i].y # NaN

\* a header, a row of three fields and a row of one field, the last column
\* dropped: the second point has neither x nor y
C25_RaggedRows ==
    /\ fn.op = "parseCSV"
    /\ fn.dropLastColumn
    /\ fn.out.ok
    /\ Len(fn.out.points) = 2
    /\ fn.out.points[1] = [x |-> Scale, y |-> 2 * Scale]
    /\ fn.out.points[2] = [x |-> Undefined, y |-> Undefined]

====
